---- MODULE Spec2Model ----
(***************************************************************************)
(* MIDAS: feature aggregation (services/context_api/features.py), the      *)
(* one-liner composer (services/context_api/app.py) and the gateway        *)
(* orchestrator (services/gateway_api/app.py).                             *)
(*                                                                         *)
(* Conventions of the model                                                *)
(*  - Python None is the empty tuple <<>>; a present value v is the        *)
(*    one-element tuple <<v>> (an option). Where the program tells a key   *)
(*    that is absent from a key whose value is None (dict.get with a       *)
(*    default), the key's entry is <<>> when absent and <<v>> when         *)
(*    present, v being an option.                                          *)
(*  - A Python str that is measured or sliced is a tuple of characters,    *)
(*    each character a TLA+ string; non-ASCII characters are named by      *)
(*    their code point ("U+20AC").                                         *)
(*  - Time is an integer number of ticks, TicksPerMin ticks to the minute. *)
(*  - Prices are integers in units of 1/10000.                             *)
(*  - Where the program computes with floats and the rounding can decide   *)
(*    the outcome, the float is computed digit by digit (FAdd, FMul, ...); *)
(*    elsewhere a float is kept as the exact fraction it approximates.     *)
(***************************************************************************)
EXTENDS Integers, Sequences, FiniteSets, TLC

VARIABLES
    olin,       \* one_liner: the request body (OneLinerIn)
    olout,      \* one_liner: the response, <<>> until the handler has run
    clock,      \* datetime.now(timezone.utc), in ticks
    gretries,   \* gateway: RETRIES (GATEWAY_RETRIES)
    gpc,        \* gateway run(): "s1" | "s2" | "s3" | "done"
    gtries,     \* gateway run(): iterations of the retry loop of the call in progress
    glog,       \* gateway run(): per stage, attempts made, failures seen, outcome
    gctx,       \* gateway run(): ctx (option)
    grec,       \* gateway run(): rec (option)
    gone,       \* gateway run(): one (option)
    gresp,      \* gateway run(): [status, body] once the request has ended, else <<>>
    live,       \* os.getenv("LIVE_PROVIDERS") == "1"
    cache,      \* the feature cache: ticker -> option of payload
    byref,      \* the cache keeps and hands out the dict it was given (TRUE) or copies
    ring,       \* _QUOTE_RING: ticker -> samples, oldest first (<<>> when the key is absent)
    fq,         \* build_features_for: the locals and position of the call in progress
    nq,         \* _note_quote called on its own: position and arguments of the call
    nreq,       \* calls of build_features_for / _note_quote started so far
    cq,         \* concurrent calls of build_features_for: worker -> locals and position
    rver,       \* the mutation counter of each ticker's deque (what its iterators check)
    cw          \* the worker whose put_cached wrote each ticker's entry last, 0 for none

olvars == <<olin, olout>>
gwvars == <<gretries, gpc, gtries, glog, gctx, grec, gone, gresp>>
ftvars == <<live, cache, byref, ring, fq, nq, nreq>>
ccvars == <<cq, rver, cw>>
vars == <<olin, olout, clock, gretries, gpc, gtries, glog, gctx, grec, gone, gresp,
          live, cache, byref, ring, fq, nq, nreq, cq, rver, cw>>

None == <<>>
Some(v) == <<v>>
IsSome(o) == o # <<>>
Val(o) == o[1]

Min(a, b) == IF a <= b THEN a ELSE b
Max(a, b) == IF a >= b THEN a ELSE b

(***************************************************************************)
(* Python float: IEEE-754 binary64, round to nearest, ties to even         *)
(***************************************************************************)

\* A natural number of any size is the tuple of its digits in base 2^15,
\* lowest first, without leading zeros; <<>> is 0.
LimbBits == 15
Base == 32768

RECURSIVE Pow2(_)
Pow2(k) == IF k = 0 THEN 1 ELSE 2 * Pow2(k - 1)

RECURSIVE BigOf(_)
\* the digits of an integer n >= 0
BigOf(n) == IF n = 0 THEN <<>> ELSE <<n % Base>> \o BigOf(n \div Base)

RECURSIVE BigVal(_)
\* the number as an integer (for numbers that fit one)
BigVal(a) == IF a = <<>> THEN 0 ELSE a[1] + Base * BigVal(Tail(a))

RECURSIVE BTrim(_)
BTrim(a) == IF a # <<>> /\ a[Len(a)] = 0 THEN BTrim(SubSeq(a, 1, Len(a) - 1)) ELSE a

BLimb(a, i) == IF i <= Len(a) THEN a[i] ELSE 0

RECURSIVE BAddFrom(_, _, _, _)
\* digits i and up of a + b, c being the carry into digit i
BAddFrom(a, b, i, c) ==
    IF i > Len(a) /\ i > Len(b) THEN (IF c = 0 THEN <<>> ELSE <<c>>)
    ELSE <<(BLimb(a, i) + BLimb(b, i) + c) % Base>>
         \o BAddFrom(a, b, i + 1, (BLimb(a, i) + BLimb(b, i) + c) \div Base)

BAdd(a, b) == BAddFrom(a, b, 1, 0)

RECURSIVE BSubFrom(_, _, _, _)
\* digits i and up of a - b, c being the borrow from digit i
BSubFrom(a, b, i, c) ==
    IF i > Len(a) THEN <<>>
    ELSE <<(a[i] - BLimb(b, i) - c) % Base>>
         \o BSubFrom(a, b, i + 1, IF a[i] - BLimb(b, i) - c < 0 THEN 1 ELSE 0)

\* a - b for a >= b
BSub(a, b) == BTrim(BSubFrom(a, b, 1, 0))

RECURSIVE BLessFrom(_, _, _)
BLessFrom(a, b, i) ==
    IF i = 0 THEN FALSE
    ELSE IF a[i] # b[i] THEN a[i] < b[i]
    ELSE BLessFrom(a, b, i - 1)

\* a < b
BLess(a, b) == IF Len(a) # Len(b) THEN Len(a) < Len(b) ELSE BLessFrom(a, b, Len(a))

RECURSIVE BMulLimbFrom(_, _, _, _)
BMulLimbFrom(a, d, i, c) ==
    IF i > Len(a) THEN (IF c = 0 THEN <<>> ELSE <<c>>)
    ELSE <<(a[i] * d + c) % Base>> \o BMulLimbFrom(a, d, i + 1, (a[i] * d + c) \div Base)

\* a * d for one digit d
BMulLimb(a, d) == IF d = 0 THEN <<>> ELSE BMulLimbFrom(a, d, 1, 0)

\* a * 2^15
BUpLimb(a) == IF a = <<>> THEN <<>> ELSE <<0>> \o a

RECURSIVE BMul(_, _)
BMul(a, b) ==
    IF b = <<>> \/ a = <<>> THEN <<>>
    ELSE BAdd(BMulLimb(a, b[1]), BUpLimb(BMul(a, Tail(b))))

\* a * 2^k
BShl(a, k) ==
    IF a = <<>> THEN <<>>
    ELSE [i \in 1..(k \div LimbBits) |-> 0] \o BMulLimb(a, Pow2(k % LimbBits))

\* w // p for p a power of two below 2^15
BShrBy(w, p) ==
    BTrim([i \in 1..Len(w) |-> (w[i] \div p) + (BLimb(w, i + 1) % p) * (Base \div p)])

\* a // 2^k
BShr(a, k) == BShrBy(SubSeq(a, (k \div LimbBits) + 1, Len(a)), Pow2(k % LimbBits))

RECURSIVE LimbLen(_)
LimbLen(d) == IF d = 0 THEN 0 ELSE 1 + LimbLen(d \div 2)

\* the number of binary digits of a
BitLen(a) == IF a = <<>> THEN 0 ELSE LimbBits * (Len(a) - 1) + LimbLen(a[Len(a)])

\* binary digit i of a, the lowest being digit 1
BBit(a, i) == (BLimb(a, ((i - 1) \div LimbBits) + 1) \div Pow2((i - 1) % LimbBits)) % 2

\* a % 2^k # 0
BLowBits(a, k) == BShl(BShr(a, k), k) # a

RECURSIVE QuotDigit(_, _, _, _)
\* the largest digit d + x, x < 2^j, with (d + x) * b <= r
QuotDigit(r, b, d, j) ==
    IF j = 0 THEN d
    ELSE IF BLess(r, BMulLimb(b, d + Pow2(j - 1))) THEN QuotDigit(r, b, d, j - 1)
    ELSE QuotDigit(r, b, d + Pow2(j - 1), j - 1)

RECURSIVE BDivFrom(_, _, _, _, _)
RECURSIVE BDivDigit(_, _, _, _, _)
RECURSIVE BDivPut(_, _, _, _, _, _)
\* long division of a by b from digit i down; q collects the quotient, r the remainder
BDivFrom(a, b, i, q, r) ==
    IF i = 0 THEN [q |-> BTrim(q), r |-> r]
    ELSE BDivDigit(a, b, i, q, BTrim(<<a[i]>> \o r))

\* r2 is the remainder with digit i of a brought down
BDivDigit(a, b, i, q, r2) == BDivPut(a, b, i, q, r2, QuotDigit(r2, b, 0, LimbBits))

\* d is digit i of the quotient
BDivPut(a, b, i, q, r2, d) == BDivFrom(a, b, i - 1, <<d>> \o q, BSub(r2, BMulLimb(b, d)))

\* divmod(a, b) for b > 0
BDivMod(a, b) == BDivFrom(a, b, Len(a), <<>>, <<>>)

\* the binary digits of a double's significand
FloatDigits == 53

\* A finite float is (-1)^s * m * 2^e with m of exactly FloatDigits binary digits,
\* or m = 0.  (Subnormals and overflow lie far outside the magnitudes handled.)
FZero == [s |-> 0, m |-> <<>>, e |-> 0]

\* whether m / 2^k rounds up to the nearest integer, ties to even (k >= 1)
RoundsUp(m, k) == BBit(m, k) = 1 /\ (BLowBits(m, k - 1) \/ BBit(m, k + 1) = 1)

\* m2 has FloatDigits binary digits, or one more after a carry
FCarry(s, m2, e) ==
    IF BitLen(m2) > FloatDigits THEN [s |-> s, m |-> BShr(m2, 1), e |-> e + 1]
    ELSE [s |-> s, m |-> m2, e |-> e]

\* m # 0 has k binary digits more than a significand
FRoundBy(s, m, e, k) ==
    IF k <= 0 THEN [s |-> s, m |-> BShl(m, 0 - k), e |-> e + k]
    ELSE FCarry(s, BAdd(BShr(m, k), IF RoundsUp(m, k) THEN <<1>> ELSE <<>>), e + k)

\* the float nearest to (-1)^s * m * 2^e, ties to even; m is any natural
FRound(s, m, e) == IF m = <<>> THEN FZero ELSE FRoundBy(s, m, e, BitLen(m) - FloatDigits)

\* d is divmod(a * 2^k, b): a digit that records a non-zero remainder is put
\* below the quotient
FRoundSticky(s, d, e) ==
    FRound(s, BAdd(BShl(d.q, 1), IF d.r = <<>> THEN <<>> ELSE <<1>>), e - 1)

\* the quotient is taken to k more binary digits
FRoundQuotBy(s, a, b, e, k) == FRoundSticky(s, BDivMod(BShl(a, k), b), e - k)

\* the float nearest to (-1)^s * (a / b) * 2^e for naturals a and b > 0: the
\* quotient is taken to two binary digits more than the significand
FRoundQuot(s, a, b, e) ==
    IF a = <<>> THEN FZero
    ELSE FRoundQuotBy(s, a, b, e, Max(0, FloatDigits + 2 + BitLen(b) - BitLen(a)))

\* float(n) for an int n
FInt(n) == FRound(IF n < 0 THEN 1 ELSE 0, BigOf(IF n < 0 THEN 0 - n ELSE n), 0)

\* the float a decimal literal n/d denotes (d a power of ten): 1.005 is FDec(1005, 1000)
FDec(n, d) ==
    FRoundQuot(IF n < 0 THEN 1 ELSE 0, BigOf(IF n < 0 THEN 0 - n ELSE n), BigOf(d), 0)

FNeg(x) == IF x.m = <<>> THEN x ELSE [x EXCEPT !.s = 1 - @]
FAbs(x) == [x EXCEPT !.s = 0]

\* (-1)^sx * a * 2^e + (-1)^sy * b * 2^e; less is a < b
FAddAligned(sx, a, sy, b, e, less) ==
    FRound(IF sx # sy /\ less THEN sy ELSE sx,
           IF sx = sy THEN BAdd(a, b) ELSE IF less THEN BSub(b, a) ELSE BSub(a, b),
           e)

\* x + y for x # 0 and y # 0, e being the lower exponent
FAddAt(x, y, e) ==
    FAddAligned(x.s, BShl(x.m, x.e - e), y.s, BShl(y.m, y.e - e), e,
                BLess(BShl(x.m, x.e - e), BShl(y.m, y.e - e)))

\* x + y
FAdd(x, y) ==
    IF x.m = <<>> THEN y
    ELSE IF y.m = <<>> THEN x
    ELSE FAddAt(x, y, Min(x.e, y.e))

\* x - y
FSub(x, y) == FAdd(x, FNeg(y))

\* x * y
FMul(x, y) == FRound((x.s + y.s) % 2, BMul(x.m, y.m), x.e + y.e)

\* x / y for y # 0
FDiv(x, y) == FRoundQuot((x.s + y.s) % 2, x.m, y.m, x.e - y.e)

\* x < 0
FNegative(x) == x.m # <<>> /\ x.s = 1

\* x < y
FLess(x, y) == FNegative(FSub(x, y))

\* x <= y
FLessEq(x, y) == ~FLess(y, x)

\* the integer (-1)^s * n
Signed(s, n) == IF s = 1 THEN 0 - n ELSE n

\* int(x): truncation toward zero
FTrunc(x) == Signed(x.s, BigVal(IF x.e >= 0 THEN BShl(x.m, x.e) ELSE BShr(x.m, 0 - x.e)))

\* round(x): the nearest integer, ties to even
FRoundInt(x) ==
    IF x.e >= 0 THEN FTrunc(x)
    ELSE Signed(x.s, BigVal(BShr(x.m, 0 - x.e)) + (IF RoundsUp(x.m, 0 - x.e) THEN 1 ELSE 0))

\* A timestamp string: an ISO-8601 instant (ticks), or text fromisoformat rejects
Iso(t) == [ok |-> TRUE, t |-> t]
BadTs == [ok |-> FALSE, t |-> 0]

\* c * n for a one-character string c
Rep(c, n) == [i \in 1..n |-> c]

\* s[:n]
Take(s, n) == SubSeq(s, 1, Min(n, Len(s)))

\* s[-n:] for n >= 1
LastN(s, n) == SubSeq(s, Max(1, Len(s) - n + 1), Len(s))

\* the characters str.strip() removes: those for which str.isspace() holds
Whitespace ==
    {"\t", "\n", "U+000B", "\f", "\r", "U+001C", "U+001D", "U+001E", "U+001F", " ",
     "U+0085", "U+00A0", "U+1680", "U+2000", "U+2001", "U+2002", "U+2003", "U+2004",
     "U+2005", "U+2006", "U+2007", "U+2008", "U+2009", "U+200A", "U+2028", "U+2029",
     "U+202F", "U+205F", "U+3000"}

RECURSIVE LStrip(_)
LStrip(s) == IF s # <<>> /\ Head(s) \in Whitespace THEN LStrip(Tail(s)) ELSE s

RECURSIVE RStrip(_)
RStrip(s) ==
    IF s # <<>> /\ s[Len(s)] \in Whitespace THEN RStrip(SubSeq(s, 1, Len(s) - 1)) ELSE s

\* str.strip()
Strip(s) == LStrip(RStrip(s))

DigitChar(d) == <<"0", "1", "2", "3", "4", "5", "6", "7", "8", "9">>[d + 1]

RECURSIVE NatStr(_)
\* str(n) for n >= 0
NatStr(n) == IF n < 10 THEN <<DigitChar(n)>> ELSE NatStr(n \div 10) \o <<DigitChar(n % 10)>>

\* str(n) for an int
IntStr(n) == IF n < 0 THEN <<"-">> \o NatStr(0 - n) ELSE NatStr(n)

(***************************************************************************)
(* One-liner composer: services/context_api/app.py                         *)
(***************************************************************************)

\* The literals of app.py, as the interpreter reads the file (UTF-8).
EmDashLit == <<" ", "U+00E2", "U+20AC", "U+201D">>
EllipsisLit == <<"U+00E2", "U+20AC", "U+00A6">>
SourceLit == <<".", " ", "S", "o", "u", "r", "c", "e", ":", " ">>
NewsLit == <<"N", "e", "w", "s">>

OneLinerMax == 180
OneLinerKeep == 177

_strategy_phrase(cls) ==
    CASE cls = "IRON_CONDOR" ->
           <<"R", "a", "n", "g", "e", "-", "b", "o", "u", "n", "d", ",", " ", "I", "V", " ", "w", "a", "t", "c", "h">>
      [] cls = "DEBIT_CALL" ->
           <<"B", "u", "l", "l", "i", "s", "h", ",", " ", "d", "e", "f", "i", "n", "e", "d", " ", "r", "i", "s", "k">>
      [] cls = "DEBIT_PUT" ->
           <<"B", "e", "a", "r", "i", "s", "h", ",", " ", "d", "e", "f", "i", "n", "e", "d", " ", "r", "i", "s", "k">>
      [] cls = "COVERED_CALL" ->
           <<"I", "n", "c", "o", "m", "e", ";", " ", "u", "p", "s", "i", "d", "e", " ", "c", "a", "p", "p", "e", "d">>
      [] cls = "NO_ACTION" ->
           <<"S", "i", "g", "n", "a", "l", " ", "u", "n", "c", "l", "e", "a", "r">>
      [] OTHER ->
           <<"R", "e", "v", "i", "e", "w", " ", "s", "e", "t", "u", "p">>

\* `if slot`: any dict is numbered
SlotShownAnyDict(slot) == IsSome(slot)

\* `slot and slot.get("url")`: the slot is a dict and its url is non-empty
SlotShown(slot) == IsSome(slot) /\ Val(slot).url # ""

\* the value of n when the loop reaches the slot: one more than the slots shown before it
NextNumber(shown) == Len(shown) + 1

RECURSIVE IndexLoop(_, _, _)
\* the for loop of _build_index_suffix over slots; acc = <<nums, shown>>
IndexLoop(slots, nums, shown) ==
    IF slots = <<>> THEN <<nums, shown>>
    ELSE IF SlotShown(Head(slots))
         THEN LET n == NextNumber(shown)
              IN  IndexLoop(Tail(slots),
                            nums \o <<"[">> \o IntStr(n) \o <<"]">>,
                            Append(shown, [n |-> n, url |-> Val(Head(slots)).url]))
         ELSE IndexLoop(Tail(slots), nums, shown)

\* refs: an option of a list of slots; the result is <<suffix text, refs_numbers>>
_build_index_suffix(refs) ==
    IF refs = None \/ Val(refs) = <<>> THEN <<<<>>, <<>>>>
    ELSE LET r == IndexLoop(Take(Val(refs), 3), <<>>, <<>>)
         IN  IF r[1] = <<>> THEN <<<<>>, <<>>>>
             ELSE << <<" ", "(">> \o r[1] \o <<")">>, r[2] >>

\* the clamp of one_liner
Clamp(text) == IF Len(text) > OneLinerMax THEN Take(text, OneLinerKeep) \o EllipsisLit ELSE text

\* text before the clamp
OneLinerRaw(x) ==
    LET phrase == _strategy_phrase(x.class_)
        pub == IF x.publisher = <<>> THEN NewsLit ELSE x.publisher
        base == Strip(phrase \o SourceLit \o pub \o EmDashLit)
    IN  base \o _build_index_suffix(x.refs)[1]

\* A float the request model accepts: a finite one (counted in thousandths), an
\* infinity, or a nan
Finite(p) == [kind |-> "finite", permille |-> p]
Infinity == [kind |-> "inf", permille |-> 0]
NaN == [kind |-> "nan", permille |-> 0]

\* the handler ends with an exception instead of a response
Raises(exc) == [raised |-> exc]
IsRaised(r) == "raised" \in DOMAIN r

\* line 72: int(round((x.confidence or 0.0) * 100)); round() raises OverflowError
\* on an infinity and ValueError on a nan
ConfPct(c) ==
    CASE c.kind = "inf" -> Raises("OverflowError")
      [] c.kind = "nan" -> Raises("ValueError")
      [] OTHER -> [value |-> FRoundInt(FMul(FDec(c.permille, 1000), FInt(100)))]

one_liner(x) ==
    LET conf_pct == ConfPct(x.confidence)
    IN  IF IsRaised(conf_pct) THEN conf_pct
        ELSE [text |-> Clamp(OneLinerRaw(x)), refs_numbers |-> _build_index_suffix(x.refs)[2]]

----
\* Inputs of the composer specification
MaxPubRun == 150
MaxRefSlots == 4

OlClasses == {"IRON_CONDOR", "NO_ACTION", "MYSTERY"}
OlUrls == {"", "a", "b"}
OlSlots == {None} \cup {Some([url |-> u]) : u \in OlUrls}

RECURSIVE SeqsUpTo(_, _)
SeqsUpTo(S, n) ==
    IF n = 0 THEN {<<>>}
    ELSE LET prev == SeqsUpTo(S, n - 1)
         IN  prev \cup {Append(s, e) : s \in {p \in prev : Len(p) = n - 1}, e \in S}

OlRefs == {None} \cup {Some(l) : l \in SeqsUpTo(OlSlots, MaxRefSlots)}
OlFewRefs == {None, Some(<<Some([url |-> "a"]), None, Some([url |-> "b"])>>)}

\* publishers: a run of letters, an optional blank, an optional further run
OlBlanks == {" ", "U+00A0"}
OlShortPubs == {<<>>, <<"R", "e", "u", "t", "e", "r", "s">>}
OlLongPubs == {Rep("x", i) \o Rep(b, j) \o Rep("y", k) :
                   i \in (MaxPubRun - 30)..MaxPubRun, b \in OlBlanks, j \in 0..1, k \in {0, 40}}

\* confidences: 0.0, 0.73, 0.125 (12.5 rounds to 12), 1.0, and the non-finite ones
OlConfidences == {Finite(0), Finite(730), Finite(125), Finite(1000), Infinity, NaN}
OlFewConfidences == {Finite(730), NaN}

OneLinerIn(c, conf, p, r) == [class_ |-> c, confidence |-> conf, publisher |-> p, refs |-> r]

OlInputs ==
    {OneLinerIn(c, f, p, r) : c \in OlClasses, f \in OlFewConfidences, p \in OlShortPubs, r \in OlRefs}
    \cup {OneLinerIn(c, f, p, r) : c \in OlClasses, f \in OlConfidences, p \in OlShortPubs, r \in OlFewRefs}
    \cup {OneLinerIn(c, Finite(730), p, r) : c \in OlClasses, p \in OlLongPubs, r \in OlFewRefs}


(***************************************************************************)
(* Gateway orchestrator: services/gateway_api/app.py                       *)
(***************************************************************************)

\* GATEWAY_RETRIES default
RETRIES == 2

TicksPerMin == 2
SecPerTick == 60 \div TicksPerMin

\* range(RETRIES): one iteration short
RetryLoopLenShort(r) == r

\* range(RETRIES + 1): the number of iterations of the retry loop
RetryLoopLen(r) == r + 1

\* per-stage record kept for the properties: attempts made, failures among them, outcome
NoLog == [st \in 1..3 |-> [att |-> 0, fail |-> 0, out |-> "none"]]

LogAttempt(log, st, ok) ==
    [log EXCEPT ![st] = [att |-> @.att + 1,
                         fail |-> IF ok THEN @.fail ELSE @.fail + 1,
                         out |-> IF ok THEN "ok" ELSE @.out]]

LogExhaust(log, st) == [log EXCEPT ![st].out = "502"]

\* the loop of _get_json / _post_json may run one more iteration
CanAttempt == gtries < RetryLoopLen(gretries)

\* int(x * 100) for the float x that p / 1000 denotes: the product is rounded to
\* a float, then int() truncates toward zero
PctOfPermille(p) == FTrunc(FMul(FDec(p, 1000), FInt(100)))

LabelChars(cls) ==
    CASE cls = "IRON_CONDOR" -> <<"I", "R", "O", "N", "_", "C", "O", "N", "D", "O", "R">>
      [] cls = "NO_ACTION" -> <<"N", "O", "_", "A", "C", "T", "I", "O", "N">>
      [] cls = "MYSTERY" -> <<"M", "Y", "S", "T", "E", "R", "Y">>

\* a key of a JSON body that is absent, and one that is present with value v
NoKey == <<>>
Entry(v) == <<v>>

\* dict.get(key, default): o is the dict's entry for the key; a key present with
\* the value None gives None, not the default
GetOr(o, default) == IF o = NoKey THEN default ELSE o[1]

\* an f-string field for a class that is a str or None
ClassChars(cls) == IF cls = None THEN <<"N", "o", "n", "e">> ELSE LabelChars(Val(cls))

\* f"{rec.get('class','NO_ACTION')} · {int(rec.get('confidence',0)*100)}% confidence";
\* None * 100 raises TypeError
FallbackOneLiner(rec) ==
    IF GetOr(rec.confidence, Some(0)) = None THEN Raises("TypeError")
    ELSE [text |-> ClassChars(GetOr(rec.class, Some("NO_ACTION"))) \o <<" ", "U+00B7", " ">>
                   \o IntStr(PctOfPermille(Val(GetOr(rec.confidence, Some(0)))))
                   \o <<"%", " ", "c", "o", "n", "f", "i", "d", "e", "n", "c", "e">>,
          refs_numbers |-> None]

\* ctx.get("refs") or []
CtxRefs(ctx) == GetOr(ctx.refs, <<>>)

NoHeadline == [title |-> "", publisher |-> <<>>, url |-> ""]

\* lines 73-74 against the request model of /api/one_liner: class_ is a str and
\* confidence a float, a body that carries None for either is answered with 422
OneLinerBodyValid(rec) ==
    /\ GetOr(rec.class, Some("NO_ACTION")) # None
    /\ GetOr(rec.confidence, Some(0)) # None

\* the body posted to /api/one_liner
OneLinerRequest(ctx, rec) ==
    OneLinerIn(Val(GetOr(rec.class, Some("NO_ACTION"))),
               Finite(Val(GetOr(rec.confidence, Some(0)))),
               GetOr(ctx.top_headline, NoHeadline).publisher,
               Some(CtxRefs(ctx)))

\* _parse_iso + age; ts_ctx is an option of a timestamp string
CacheAge(ts, now) ==
    IF IsSome(ts) /\ Val(ts).ok THEN Some((now - Val(ts).t) * SecPerTick) ELSE None

\* the resp dict of run()
Composite(ticker, ctx, rec, one, now) ==
    [ticker |-> ticker,
     features |-> GetOr(ctx.features, "{}"),
     recommendation |-> rec,
     one_liner |-> one,
     quote |-> GetOr(ctx.quote, [last |-> 0, bid |-> None, ask |-> None]),
     top_headline |-> ctx.top_headline,
     refs |-> CtxRefs(ctx),
     refs_sources |-> GetOr(ctx.refs_sources, <<>>),
     ts_ctx |-> ctx.ts,
     cache_age_seconds |-> CacheAge(ctx.ts, now),
     features_note |-> ctx.error]

\* raise HTTPException(status_code=502, ...)
Http502(st) == [status |-> 502, stage |-> st, body |-> None]

----
\* Upstream responses offered to the gateway
MaxRetries == 3

GwPublisher == <<"R", "e", "u", "t", "e", "r", "s">>
GwHeadline == [title |-> "t1", publisher |-> GwPublisher, url |-> "a"]

GwCtxResponses ==
    { [features |-> Some("live"), top_headline |-> Some(GwHeadline), error |-> None,
       quote |-> Some([last |-> 10000, bid |-> Some(9996), ask |-> Some(10004)]),
       ts |-> Some(Iso(0)),
       refs |-> Some(<<Some([url |-> "a"]), None, None>>), refs_sources |-> Some(<<"Reuters">>)],
      [features |-> Some("synthetic"), top_headline |-> None, error |-> Some(<<"tiingo">>),
       quote |-> Some([last |-> 0, bid |-> None, ask |-> None]),
       ts |-> Some(BadTs),
       refs |-> Some(<<>>), refs_sources |-> Some(<<>>)],
      [features |-> Some("synthetic"), top_headline |-> None, error |-> Some(<<"str(e)">>),
       quote |-> None, ts |-> None, refs |-> None, refs_sources |-> None] }

\* the bodies the recommendation service answers with: class a string and
\* confidence a finite number (in thousandths), either key possibly absent
GwRecResponses ==
    {[class |-> c, confidence |-> p] :
        c \in {NoKey, Entry(Some("IRON_CONDOR")), Entry(Some("MYSTERY"))},
        p \in {NoKey, Entry(Some(290)), Entry(Some(730)), Entry(Some(735)), Entry(Some(1000))}}

GwTicker == "T"

(***************************************************************************)
(* Quote ring: services/context_api/features.py                            *)
(***************************************************************************)

Tickers == {"A", "B"}

\* deque(maxlen=600)
RingMaxLen == 600
\* timedelta(minutes=10)
RingWindowMin == 10

\* deque.append on a deque with maxlen: a full deque drops its leftmost item
DequeAppend(r, item) == IF Len(r) >= RingMaxLen THEN Tail(r) \o <<item>> ELSE Append(r, item)

\* ring.append((datetime.now(timezone.utc), float(last)))
RingAppend(r, now, last) == DequeAppend(r, [ts |-> now, px |-> last])

\* the sample at the head is evicted: ring[0][0] < cut
Stale(sample, cut) == sample.ts < cut

RECURSIVE PopStale(_, _)
\* while ring and ring[0][0] < cut: ring.popleft()
PopStale(r, cut) == IF r # <<>> /\ Stale(Head(r), cut) THEN PopStale(Tail(r), cut) ELSE r

\* cut = datetime.now(timezone.utc) - timedelta(minutes=10), then the while loop
RingTrim(r, now) == PopStale(r, now - RingWindowMin * TicksPerMin)

(***************************************************************************)
(* Feature aggregation: services/context_api/features.py                   *)
(***************************************************************************)

\* str.strip() on the short strings headlines carry
AtomStrip(a) == CASE a = " " -> "" [] a = " a " -> "a" [] OTHER -> a

\* _parse_iso_aware(s): unparsable text yields the time the clock shows when the
\* call is made (line 29); now is that reading
_parse_iso_aware(s, now) == IF s.ok THEN s.t ELSE now

\* an iteration that never looks at the URLs already taken
MergeOneNoDedup(out, h) ==
    LET title == AtomStrip(h.title)
        url == AtomStrip(h.url)
        pub == AtomStrip(h.publisher)
    IN  IF title = "" \/ url = "" THEN out
        ELSE Append(out, [title |-> title, publisher |-> IF pub = "" THEN "News" ELSE pub, url |-> url])

\* one iteration of the inner loop of _merge_refs
MergeOne(out, h) ==
    LET title == AtomStrip(h.title)
        url == AtomStrip(h.url)
        pub == AtomStrip(h.publisher)
    IN  IF title = "" \/ url = "" THEN out
        ELSE IF \E i \in 1..Len(out) : out[i].url = url THEN out
        ELSE Append(out, [title |-> title, publisher |-> IF pub = "" THEN "News" ELSE pub, url |-> url])

RECURSIVE MergeLoop(_, _)
\* the loops of _merge_refs; both break once len(out) >= 3
MergeLoop(hs, out) ==
    IF hs = <<>> \/ Len(out) >= 3 THEN out ELSE MergeLoop(Tail(hs), MergeOne(out, Head(hs)))

_merge_refs(fn, yh) == MergeLoop(fn \o yh, <<>>)

\* publishers with repeats dropped
RefsSourcesDistinct(refs) ==
    LET idx == SelectSeq([i \in 1..Len(refs) |-> i],
                         LAMBDA i : \A j \in 1..(i - 1) : refs[j].publisher # refs[i].publisher)
    IN  [k \in 1..Len(idx) |-> refs[idx[k]].publisher]

\* refs_sources = [r["publisher"] for r in refs], taken before the padding
RefsSources(refs) == [i \in 1..Len(refs) |-> refs[i].publisher]

\* while len(refs) < 3: refs.append(None)
PadRefs(refs) == [i \in 1..Max(3, Len(refs)) |-> IF i <= Len(refs) THEN Some(refs[i]) ELSE None]

\* top_headline = fh[0] if fh else yh[0] if yh else None
TopHeadline(fh, yh) == IF fh # <<>> THEN Some(fh[1]) ELSE IF yh # <<>> THEN Some(yh[1]) ELSE None

\* the titles _sent_from_headlines would post: those of fh[:3], or of yh[:3] when fh is empty
SentTitles(fh, yh) ==
    LET src == IF Take(fh, 3) # <<>> THEN Take(fh, 3) ELSE Take(yh, 3)
    IN  SelectSeq(src, LAMBDA h : h.title # "" /\ AtomStrip(h.title) # "")

SentDefault == [mean |-> 0, std |-> 5]

\* float(x or 0.0) for an optional number
NumOrZero(o) == IF IsSome(o) THEN Val(o) ELSE 0

\* float(x or 0.0) or None
NumOrNone(o) == IF IsSome(o) /\ Val(o) # 0 THEN o ELSE None

\* last_px after lines 155-157
LastFromPrimary(quote_ti, candles) ==
    IF NumOrZero(quote_ti.last) = 0 /\ candles # <<>>
    THEN candles[Len(candles)].close
    ELSE NumOrZero(quote_ti.last)

\* quality at line 161
QualityObserved(bid, ask, last_px) ==
    IF IsSome(bid) /\ IsSome(ask) /\ last_px > 0 THEN "real" ELSE "unknown"

\* the price written when every source left last_px <= 0
SentinelPx == 10000

\* line 171
LastOrSentinel(last_px) == IF last_px <= 0 THEN SentinelPx ELSE last_px

\* line 176: bid/ask missing or crossed
NeedsEstimate(bid, ask) == bid = None \/ ask = None \/ Val(ask) <= Val(bid)

\* lines 176-181: [bid, ask, quality] after the estimate; half is kept in whole
\* ten-thousandths (rounded down), which leaves the estimated spread near 8 bps
SpreadFix(bid, ask, quality, last_px) ==
    IF NeedsEstimate(bid, ask)
    THEN LET half == (8 * last_px) \div 20000
         IN  [bid |-> Some(last_px - half), ask |-> Some(last_px + half), quality |-> "estimated"]
    ELSE [bid |-> bid, ask |-> ask, quality |-> quality]

MinsCap == 240
MinsUnknown == 9999

\* the clamp of line 191
ClampMins(m) == Min(m, MinsCap)

Maximum(S) == CHOOSE x \in S : \A y \in S : y <= x

\* lines 186-187: the headlines that carry a ts
TsPool(fh, yh) == SelectSeq(fh \o yh, LAMBDA h : IsSome(h.ts))

\* lines 184-188: the pool is taken; without a ts in it the sentinel goes through
\* the clamp of line 191
NewsPoolStep(q) ==
    IF TsPool(q.fh, q.yh) = <<>> THEN [q EXCEPT !.mins = ClampMins(MinsUnknown)]
    ELSE [q EXCEPT !.loc.pool = TsPool(q.fh, q.yh)]

\* line 189: max() draws the next headline of the pool and _parse_iso_aware parses
\* its ts; now is the clock reading of this call, latest the largest time so far
NewsParseStep(q, now) ==
    [q EXCEPT !.loc.latest =
                 IF @ = None THEN Some(_parse_iso_aware(Val(Head(q.loc.pool).ts), now))
                 ELSE Some(Maximum({Val(@), _parse_iso_aware(Val(Head(q.loc.pool).ts), now)})),
              !.loc.pool = Tail(@)]

\* lines 190-191: now is the clock reading of line 190; the whole minutes from
\* latest to now, floored, then the clamp from above
NewsDiffStep(q, now) ==
    [q EXCEPT !.mins = ClampMins((now - Val(q.loc.latest)) \div TicksPerMin),
              !.loc.latest = None]

TicksPerDay == 1440 * TicksPerMin
DateOf(t) == t \div TicksPerDay

\* lines 224-227; earn_iso is an option of a timestamp string
EarningsSoon(earn_iso, now) ==
    IF IsSome(earn_iso)
    THEN LET days == DateOf(_parse_iso_aware(Val(earn_iso), now)) - DateOf(now)
         IN  0 <= days /\ days <= 14
    ELSE FALSE

Abs(x) == IF x < 0 THEN 0 - x ELSE x

RECURSIVE SumVolume(_)
SumVolume(cs) == IF cs = <<>> THEN 0 ELSE Head(cs).volume + SumVolume(Tail(cs))

\* the float a price of n ten-thousandths denotes
FPrice(n) == FDec(n, 10000)

\* line 232: abs(ask_disp - bid_disp) / last_px * 1e4, in floats
SpreadBps(bid, ask, last_px) ==
    FMul(FDiv(FAbs(FSub(FPrice(ask), FPrice(bid))), FPrice(last_px)), FInt(10000))

\* lines 232 and 235: spread_bps <= 30.0, spread_bps being 9999 when last_px is 0
SpreadWithin30(bid, ask, last_px) ==
    last_px # 0 /\ FLessEq(SpreadBps(bid, ask, last_px), FInt(30))

RECURSIVE Gcd(_, _)
Gcd(a, b) == IF b = 0 THEN a ELSE Gcd(b, a % b)

\* the float 0.0
Zero == [num |-> 0, den |-> 1]

\* the float n / d, kept as a fraction in lowest terms
Quot(n, d) ==
    LET g == Gcd(Abs(n), Abs(d))
        sgn == IF d < 0 THEN 0 - 1 ELSE 1
    IN  IF n = 0 THEN Zero ELSE [num |-> (sgn * n) \div g, den |-> (sgn * d) \div g]

RECURSIVE ScanBackStrict(_, _, _)
\* a scan that stops only at a sample strictly older than the cutoff
ScanBackStrict(r, i, cutoff) ==
    IF r[i].ts < cutoff \/ i = 1 THEN r[i].px ELSE ScanBackStrict(r, i - 1, cutoff)

RECURSIVE ScanBack(_, _, _)
\* for ts, px in reversed(ring): base = px; if ts <= cutoff: break  (from index i down)
ScanBack(r, i, cutoff) ==
    IF r[i].ts <= cutoff \/ i = 1 THEN r[i].px ELSE ScanBack(r, i - 1, cutoff)

\* _ret_from_ring(ticker, minutes) on the ticker's ring r; a missing ring is <<>>
_ret_from_ring(r, now, minutes) ==
    IF r = <<>> THEN Zero
    ELSE LET base == ScanBack(r, Len(r), now - minutes * TicksPerMin)
             last == r[Len(r)].px
         IN  IF base = 0 THEN Zero ELSE Quot(last - base, base)

\* ret_pct(closes, n) of the indicator library: (closes[-1] - closes[-1-n]) / closes[-1-n]
ret_pct(closes, n) ==
    LET base == closes[Len(closes) - n]
    IN  Quot(closes[Len(closes)] - base, base)

RECURSIVE SumSeq(_)
SumSeq(xs) == IF xs = <<>> THEN 0 ELSE Head(xs) + SumSeq(Tail(xs))

\* above_sma20(closes) of the indicator library: last close > mean of the last 20 closes
above_sma20(closes) ==
    LET w == LastN(closes, 20) IN closes[Len(closes)] * Len(w) > SumSeq(w)

\* closes[-120:]
VolWindow == 120
\* the length the close series is padded to
VolPadLen == 21
\* the 20 of sum(series[-20:]) / 20.0
SmaLen == 20

\* _pad(series, n, pad_val)
_pad(series, n, pad_val) == series \o Rep(pad_val, Max(0, n - Len(series)))

\* lines 202-207: the close series handed to atr_normalized
CloseSeries(closes, last_px) ==
    LET series == LastN(closes, VolWindow)
    IN  IF Len(series) < VolPadLen
        THEN _pad(series, VolPadLen, IF series # <<>> THEN series[Len(series)] ELSE last_px)
        ELSE series

\* lines 208-209: (highs or [pad_val])[-len(series):]
Segment(xs, series) ==
    LastN(IF xs # <<>> THEN xs ELSE <<series[Len(series)]>>, Len(series))

RECURSIVE FSum(_)
\* sum(xs) over floats: added one by one from the left, each sum rounded (CPython 3.11)
FSum(xs) ==
    IF xs = <<>> THEN FZero
    ELSE FAdd(FSum(SubSeq(xs, 1, Len(xs) - 1)), FPrice(xs[Len(xs)]))

\* line 211: series[-1] > sum(series[-20:]) / 20.0, in floats
AboveSma(series) ==
    FLess(FDiv(FSum(LastN(series, SmaLen)), FInt(SmaLen)), FPrice(series[Len(series)]))

\* lines 194-214: the two returns and where each came from
Returns(candles, r, now) ==
    IF Len(candles) >= 2
    THEN LET closes == [i \in 1..Len(candles) |-> candles[i].close]
         IN  [r_1m |-> ret_pct(closes, 1), r_1m_src |-> "candles",
              r_5m |-> IF Len(closes) >= 6 THEN ret_pct(closes, 5) ELSE _ret_from_ring(r, now, 5),
              r_5m_src |-> IF Len(closes) >= 6 THEN "candles" ELSE "ring"]
    ELSE [r_1m |-> _ret_from_ring(r, now, 1), r_1m_src |-> "ring",
          r_5m |-> _ret_from_ring(r, now, 5), r_5m_src |-> "ring"]

\* the closes of _synthetic_feats()
SyntheticCloses ==
    <<100, 101, 102, 103, 103, 104, 105, 104, 103, 102, 103, 104, 103, 102, 101, 100, 99, 99,
      100, 101, 102>>

\* _synthetic_feats(), the fields carried by the model
_synthetic_feats ==
    [sent_mean |-> 0, sent_std |-> 5,
     r_1m |-> ret_pct(SyntheticCloses, 1), r_5m |-> ret_pct(SyntheticCloses, 5),
     above_sma20 |-> above_sma20(SyntheticCloses), mins_since_news |-> 12,
     earnings_soon |-> FALSE, liquidity_flag |-> TRUE]

UnknownQuote == [last |-> 0, bid |-> None, ask |-> None, quality |-> "unknown"]

\* the refs of the two synthetic payloads (lines 115 and 267)
SyntheticRefs == <<>>

\* the payload of lines 112-120 and 264-272; an empty error tuple is None
SyntheticPayload(top_headline, error, now) ==
    [features |-> _synthetic_feats, top_headline |-> top_headline,
     refs |-> SyntheticRefs, refs_sources |-> <<>>, error |-> error,
     quote |-> UnknownQuote, ts |-> Iso(now)]

\* error = (error + f"; yahoo: {e}") if error else f"yahoo: {e}"
AppendDiag(error, d) == Append(error, d)

\* error = f"tiingo: {e}" / f"providers failed: {e!r}"
SetDiag(error, d) == <<d>>

\* no call of _note_quote in progress
NoNoteQuote ==
    [pc |-> "idle", ticker |-> "A", last |-> 0, at |-> 0, n |-> 0,
     rn |-> 0, rticker |-> "A", cn |-> 0,
     rets |-> [r_1m |-> Zero, r_1m_src |-> "none", r_5m |-> Zero, r_5m_src |-> "none"]]

\* the threads of the server's pool that run build_features_for side by side
Workers == {1, 2}

\* the locals of _note_quote and _ret_from_ring, and the exception in flight
NoLocals ==
    [ts |-> 0, cut |-> 0, todo |-> <<>>, cutoff |-> 0, it |-> [n |-> 0, ver |-> 0],
     base |-> None, exc |-> "none", payload |-> None, obj |-> 0,
     pool |-> <<>>, latest |-> None]

\* the locals of build_features_for before its first statement
NewRequest(t) ==
    [pc |-> "start", ticker |-> t, path |-> "none", calls |-> <<>>, failed |-> <<>>,
     aggs |-> [k \in Tickers |-> 0], loc |-> NoLocals,
     error |-> <<>>, top_headline |-> None, fh |-> <<>>, yh |-> <<>>,
     refs |-> <<>>, refs_sources |-> <<>>, sent |-> SentDefault,
     quote_ti |-> [last |-> None, bid |-> None, ask |-> None], candles |-> <<>>,
     last_px |-> 0, bid |-> None, ask |-> None, quality |-> "unknown",
     mins |-> MinsUnknown,
     r_1m |-> Zero, r_5m |-> Zero, r_1m_src |-> "none", r_5m_src |-> "none",
     vol |-> [h |-> <<>>, l |-> <<>>, c |-> <<>>, above |-> FALSE],
     ret |-> None, resp |-> None]

\* the values of a component's variables while another component is under study
OlIdle == olin = OneLinerIn("NO_ACTION", Finite(0), <<>>, None) /\ olout = None
GwIdle ==
    /\ gretries = RETRIES /\ gpc = "done" /\ gtries = 0 /\ glog = NoLog
    /\ gctx = None /\ grec = None /\ gone = None /\ gresp = None

CcIdle ==
    /\ cq = [w \in Workers |-> [NewRequest("A") EXCEPT !.pc = "idle"]]
    /\ rver = [t \in Tickers |-> 0]
    /\ cw = [t \in Tickers |-> 0]

FtIdle ==
    /\ live = FALSE /\ cache = [t \in Tickers |-> None] /\ ring = [t \in Tickers |-> <<>>]
    /\ byref = FALSE
    /\ fq = [NewRequest("A") EXCEPT !.pc = "answered"] /\ nq = NoNoteQuote /\ nreq = 0

(***************************************************************************)
(* Specifications                                                          *)
(***************************************************************************)

InitOneLiner ==
    /\ olin \in OlInputs /\ olout = None
    /\ clock = 0
    /\ GwIdle /\ FtIdle /\ CcIdle

\* POST /api/one_liner: the handler returns its response or ends with an exception
OneLinerCall ==
    /\ olout = None
    /\ olout' = Some(one_liner(olin))
    /\ UNCHANGED <<olin, clock, gwvars, ftvars, ccvars>>

NextOneLiner == OneLinerCall

SpecOneLiner == InitOneLiner /\ [][NextOneLiner]_vars

InitGateway ==
    /\ OlIdle /\ FtIdle /\ CcIdle
    /\ clock \in 0..1
    /\ gretries \in 0..MaxRetries
    /\ gpc = "s1" /\ gtries = 0 /\ glog = NoLog
    /\ gctx = None /\ grec = None /\ gone = None /\ gresp = None

\* _get_json(CTX_URL/api/features/v2): one iteration of the loop, the upstream answers
FeaturesAttemptOk ==
    /\ gpc = "s1" /\ CanAttempt
    /\ \E c \in GwCtxResponses : gctx' = Some(c)
    /\ glog' = LogAttempt(glog, 1, TRUE)
    /\ gpc' = "s2" /\ gtries' = 0
    /\ UNCHANGED <<olvars, ftvars, ccvars, clock, gretries, grec, gone, gresp>>

\* _get_json: one iteration of the loop, the attempt raises (any exception)
FeaturesAttemptFail ==
    /\ gpc = "s1" /\ CanAttempt
    /\ glog' = LogAttempt(glog, 1, FALSE)
    /\ gtries' = gtries + 1
    /\ UNCHANGED <<olvars, ftvars, ccvars, clock, gretries, gpc, gctx, grec, gone, gresp>>

\* _get_json: the loop is over, raise 502; run() does not catch it
FeaturesExhausted ==
    /\ gpc = "s1" /\ ~CanAttempt
    /\ glog' = LogExhaust(glog, 1)
    /\ gresp' = Some(Http502(1))
    /\ gpc' = "done"
    /\ UNCHANGED <<olvars, ftvars, ccvars, clock, gretries, gtries, gctx, grec, gone>>

\* _post_json(REC_URL/api/recommend, features)
RecommendAttemptOk ==
    /\ gpc = "s2" /\ CanAttempt
    /\ \E r \in GwRecResponses : grec' = Some(r)
    /\ glog' = LogAttempt(glog, 2, TRUE)
    /\ gpc' = "s3" /\ gtries' = 0
    /\ UNCHANGED <<olvars, ftvars, ccvars, clock, gretries, gctx, gone, gresp>>

RecommendAttemptFail ==
    /\ gpc = "s2" /\ CanAttempt
    /\ glog' = LogAttempt(glog, 2, FALSE)
    /\ gtries' = gtries + 1
    /\ UNCHANGED <<olvars, ftvars, ccvars, clock, gretries, gpc, gctx, grec, gone, gresp>>

RecommendExhausted ==
    /\ gpc = "s2" /\ ~CanAttempt
    /\ glog' = LogExhaust(glog, 2)
    /\ gresp' = Some(Http502(2))
    /\ gpc' = "done"
    /\ UNCHANGED <<olvars, ftvars, ccvars, clock, gretries, gtries, gctx, grec, gone>>

\* steps 4.. of run(): age, resp, return
Respond(one) ==
    /\ gone' = Some(one)
    /\ gresp' = Some([status |-> 200, stage |-> 3,
                      body |-> Some(Composite(GwTicker, Val(gctx), Val(grec), one, clock))])
    /\ gpc' = "done"

\* _post_json(CTX_URL/api/one_liner, ...) answers with the composer's response;
\* run() then assembles its own
OneLinerAttemptOk ==
    /\ gpc = "s3" /\ CanAttempt
    /\ OneLinerBodyValid(Val(grec))
    /\ ~IsRaised(one_liner(OneLinerRequest(Val(gctx), Val(grec))))
    /\ glog' = LogAttempt(glog, 3, TRUE)
    /\ Respond(one_liner(OneLinerRequest(Val(gctx), Val(grec))))
    /\ UNCHANGED <<olvars, ftvars, ccvars, clock, gretries, gtries, gctx, grec>>

OneLinerAttemptFail ==
    /\ gpc = "s3" /\ CanAttempt
    /\ glog' = LogAttempt(glog, 3, FALSE)
    /\ gtries' = gtries + 1
    /\ UNCHANGED <<olvars, ftvars, ccvars, clock, gretries, gpc, gctx, grec, gone, gresp>>

\* the 502 of stage 3 reaches the caller
OneLinerFailureRaises == gone' = gone /\ gresp' = Some(Http502(3)) /\ gpc' = "done"

\* lines 80-81: `except HTTPException` substitutes the local template; an
\* exception raised while the template is built leaves run() and the server
\* answers 500
OnOneLinerFailure ==
    IF IsRaised(FallbackOneLiner(Val(grec)))
    THEN gone' = gone /\ gresp' = Some([status |-> 500, stage |-> 3, body |-> None]) /\ gpc' = "done"
    ELSE Respond(FallbackOneLiner(Val(grec)))

\* _post_json raises 502 at stage 3
OneLinerExhausted ==
    /\ gpc = "s3" /\ ~CanAttempt
    /\ glog' = LogExhaust(glog, 3)
    /\ OnOneLinerFailure
    /\ UNCHANGED <<olvars, ftvars, ccvars, clock, gretries, gtries, gctx, grec>>

NextGateway ==
    \/ FeaturesAttemptOk \/ FeaturesAttemptFail \/ FeaturesExhausted
    \/ RecommendAttemptOk \/ RecommendAttemptFail \/ RecommendExhausted
    \/ OneLinerAttemptOk \/ OneLinerAttemptFail \/ OneLinerExhausted

SpecGateway == InitGateway /\ [][NextGateway]_vars

----
\* Provider answers offered to the aggregator
MaxClock == 42
\* the clock of the concurrent runs: one advance, two distinct readings
MaxConcClock == 21
MaxRequests == 2
FeatTickers == {"A"}

\* the clock advances between statements by ten and a half minutes
FeatTickSteps == {RingWindowMin * TicksPerMin + 1}

Headline(title, url, pub, ts) == [title |-> title, url |-> url, publisher |-> pub, ts |-> ts]

H1 == Headline("t1", "a", "Reuters", Some(Iso(0)))
H2 == Headline("t2", "", "AP", Some(BadTs))
H3 == Headline("t3", "b", "", None)
H4 == Headline("t4", "a", "Yahoo", Some(Iso(30)))
H5 == Headline("t5", "c", "Yahoo", None)
H6 == Headline("t6", "d", "Yahoo", None)

FhLists == {<<H1>>, <<H2, H3>>}
YhLists == {<<>>, <<H4, H5, H6>>}

Candle(close, volume) == [close |-> close, high |-> close + 10, low |-> close - 10, volume |-> volume]
\* n one-minute bars with rising closes
CandleRun(n) == [i \in 1..n |-> Candle(10000 + 10 * i, 10)]
\* the candle counts offered: none, one, two, six, and more than VolPadLen
CandleLists ==
    {<<>>, <<Candle(10040, 2000), Candle(10050, 10)>>, CandleRun(1), CandleRun(6),
     CandleRun(VolPadLen + 1)}

QuoteAnswers ==
    { [last |-> Some(10000), bid |-> Some(9990), ask |-> Some(10000)],
      [last |-> None, bid |-> Some(9990), ask |-> Some(10000)],
      [last |-> Some(10000), bid |-> Some(10010), ask |-> Some(10000)],
      [last |-> Some(10000), bid |-> Some(9985), ask |-> Some(10015)],
      [last |-> Some(0), bid |-> Some(0), ask |-> None] }
SecondaryQuoteAnswers == {[last |-> None], [last |-> Some(10020)]}
\* the quotes offered to requests that run side by side
ConcQuotes ==
    { [last |-> Some(10000), bid |-> Some(9990), ask |-> Some(10000)],
      [last |-> Some(10100), bid |-> Some(10090), ask |-> Some(10100)] }
SentAnswers == {[mean |-> 20, std |-> 10]}
EarningsAnswers == {None, Some(BadTs), Some(Iso(20 * TicksPerDay))}

\* The float comparisons do not depend on the state: for the answers offered
\* above each is evaluated once and looked up afterwards; for any other argument
\* it is evaluated on the spot.
OfferedLasts ==
    {Val(a.last) : a \in {q \in QuoteAnswers \cup ConcQuotes \cup SecondaryQuoteAnswers :
                              IsSome(q.last) /\ Val(q.last) > 0}}
    \cup {c[Len(c)].close : c \in CandleLists \ {<<>>}} \cup {SentinelPx}

OfferedSpreads ==
    {LET fix == SpreadFix(NumOrNone(a.bid), NumOrNone(a.ask), "unknown", l)
     IN  <<Val(fix.bid), Val(fix.ask), l>> : a \in QuoteAnswers \cup ConcQuotes, l \in OfferedLasts}

SpreadMemo == [k \in OfferedSpreads |-> SpreadWithin30(k[1], k[2], k[3])]

AboveMemo ==
    [c \in {l \in CandleLists : Len(l) >= 2} |->
        AboveSma(CloseSeries([i \in 1..Len(c) |-> c[i].close], 0))]

\* lines 232-235
LiquidityFlag(bid, ask, last_px, candles) ==
    \/ IF <<Val(bid), Val(ask), last_px>> \in DOMAIN SpreadMemo
       THEN SpreadMemo[<<Val(bid), Val(ask), last_px>>]
       ELSE SpreadWithin30(Val(bid), Val(ask), last_px)
    \/ (candles # <<>> /\ candles[Len(candles)].volume >= 1000)
    \/ SumVolume(LastN(candles, 5)) >= 5000

\* lines 194-216: the three series handed to atr_normalized, and above
Volatility(candles, last_px) ==
    IF Len(candles) >= 2
    THEN LET closes == [i \in 1..Len(candles) |-> candles[i].close]
             highs == [i \in 1..Len(candles) |-> candles[i].high]
             lows == [i \in 1..Len(candles) |-> candles[i].low]
             series == CloseSeries(closes, last_px)
         IN  [h |-> Segment(highs, series), l |-> Segment(lows, series), c |-> series,
              above |-> IF candles \in DOMAIN AboveMemo THEN AboveMemo[candles]
                        ELSE AboveSma(series)]
    ELSE [h |-> Rep(last_px, VolPadLen), l |-> Rep(last_px, VolPadLen),
          c |-> Rep(last_px, VolPadLen), above |-> FALSE]

Called(q, name) == [q EXCEPT !.calls = Append(@, name)]
Failed(q, name) == [q EXCEPT !.calls = Append(@, name), !.failed = Append(@, name)]

\* return payload
Return(q, path, payload) == [q EXCEPT !.pc = "done", !.path = path, !.ret = Some(payload)]

\* get_cached(ticker): the entry last written for the ticker, None when there is none
GetCached(c, t) == c[t]

\* put_cached(ticker, payload): the entry is created or overwritten
PutCached(c, t, payload) == [c EXCEPT ![t] = Some(payload)]

\* build_features_stub()
build_features_stub == _synthetic_feats

\* app.py line 26: payload["ticker"] = ticker
WithTicker(payload, t) ==
    [features |-> payload.features, top_headline |-> payload.top_headline,
     refs |-> payload.refs, refs_sources |-> payload.refs_sources, error |-> payload.error,
     quote |-> payload.quote, ts |-> payload.ts, ticker |-> t]

\* app.py line 27: payload["ts"] = ts_utc_now()
WithTs(payload, now) == [payload EXCEPT !.ts = Iso(now)]

\* app.py lines 29-31: the stub payload that carries str(e)
StubPayload(t, now) ==
    [features |-> build_features_stub, ticker |-> t, ts |-> Iso(now), error |-> <<"str(e)">>]

InitFeatures ==
    /\ OlIdle /\ GwIdle /\ CcIdle
    /\ clock = 0
    /\ live = FALSE
    /\ byref \in BOOLEAN
    /\ cache = [t \in Tickers |-> None]
    /\ ring = [t \in Tickers |-> <<>>]
    /\ fq = [NewRequest("A") EXCEPT !.pc = "answered"]
    /\ nq = NoNoteQuote
    /\ nreq = 0

\* time passes
Tick ==
    /\ \E d \in FeatTickSteps : clock + d <= MaxClock /\ clock' = clock + d
    /\ UNCHANGED <<olvars, gwvars, ccvars, ftvars>>

\* a request enters features_v2, which calls build_features_for (app.py line 25);
\* line 102 reads LIVE_PROVIDERS
Enter ==
    /\ fq.pc = "answered" /\ nreq < MaxRequests
    /\ \E t \in FeatTickers : fq' = [NewRequest(t) EXCEPT !.aggs = fq.aggs]
    /\ live' \in BOOLEAN
    /\ nreq' = nreq + 1
    /\ UNCHANGED <<olvars, gwvars, ccvars, clock, cache, byref, ring, nq>>

\* lines 110-121: not live
StartNonLive ==
    /\ fq.pc = "start" /\ ~live
    /\ fq' = Return(fq, "nonlive", SyntheticPayload(None, <<>>, clock))
    /\ UNCHANGED <<olvars, gwvars, ccvars, clock, live, byref, cache, ring, nq, nreq>>

\* a cache entry that is ignored: the aggregation runs again
StartCacheHitRefetch ==
    /\ fq.pc = "start" /\ live /\ IsSome(GetCached(cache, fq.ticker))
    /\ fq' = [fq EXCEPT !.pc = "fh", !.aggs[fq.ticker] = @ + 1]
    /\ UNCHANGED <<olvars, gwvars, ccvars, clock, live, byref, cache, ring, nq, nreq>>

\* lines 106-109: live, the ticker is cached
StartCacheHit ==
    /\ fq.pc = "start" /\ live /\ IsSome(GetCached(cache, fq.ticker))
    /\ fq' = Return(fq, "hit", Val(GetCached(cache, fq.ticker)))
    /\ UNCHANGED <<olvars, gwvars, ccvars, clock, live, byref, cache, ring, nq, nreq>>

\* lines 106-108: live, nothing cached
StartCacheMiss ==
    /\ fq.pc = "start" /\ live /\ GetCached(cache, fq.ticker) = None
    /\ fq' = [fq EXCEPT !.pc = "fh", !.aggs[fq.ticker] = @ + 1]
    /\ UNCHANGED <<olvars, gwvars, ccvars, clock, live, byref, cache, ring, nq, nreq>>

\* lines 259-274: the outer handlers, the synthetic payload, put_cached, return
Degrade(q, diag) ==
    LET error == SetDiag(q.error, diag)
        payload == SyntheticPayload(q.top_headline, error, clock)
    IN  /\ fq' = Return([q EXCEPT !.error = error], "degraded", payload)
        /\ cache' = PutCached(cache, q.ticker, payload)

\* an exception leaves build_features_for
Escape(q) == fq' = [q EXCEPT !.pc = "raised"] /\ UNCHANGED cache

\* a try block whose only handler is `except TiError`
OuterHandlerTiErrorOnly(q, kind) == IF kind = "TiError" THEN Degrade(q, "tiingo") ELSE Escape(q)

\* lines 259-262: `except TiError`, then `except Exception`
OuterHandler(q, kind) == Degrade(q, IF kind = "TiError" THEN "tiingo" ELSE "providers failed")

\* line 128: fetch_headlines returns
FetchHeadlinesOk ==
    /\ fq.pc = "fh"
    /\ \E l \in FhLists : fq' = [Called(fq, "headlines") EXCEPT !.fh = l, !.pc = "yh"]
    /\ UNCHANGED <<olvars, gwvars, ccvars, clock, live, byref, cache, ring, nq, nreq>>

\* lines 129-130: fetch_headlines raises FHError
FetchHeadlinesFHError ==
    /\ fq.pc = "fh"
    /\ fq' = [Failed(fq, "headlines") EXCEPT !.error = <<"news">>, !.pc = "yh"]
    /\ UNCHANGED <<olvars, gwvars, ccvars, clock, live, byref, cache, ring, nq, nreq>>

\* fetch_headlines raises something that is not an FHError
FetchHeadlinesOther ==
    /\ fq.pc = "fh"
    /\ OuterHandler(Failed(fq, "headlines"), "Exception")
    /\ UNCHANGED <<olvars, gwvars, ccvars, clock, live, byref, ring, nq, nreq>>

\* lines 136-149 after the yahoo call: top headline, refs, padding, the sentiment argument
AfterHeadlines(q) ==
    LET merged == _merge_refs(q.fh, q.yh)
        q2 == [q EXCEPT !.top_headline = TopHeadline(q.fh, q.yh),
                        !.refs = PadRefs(merged),
                        !.refs_sources = RefsSources(merged)]
    IN  IF SentTitles(q.fh, q.yh) = <<>> THEN [q2 EXCEPT !.pc = "quote"] ELSE [q2 EXCEPT !.pc = "sent"]

\* line 132: fetch_headlines_yahoo returns
FetchYahooOk ==
    /\ fq.pc = "yh"
    /\ \E l \in YhLists : fq' = AfterHeadlines([Called(fq, "yahoo") EXCEPT !.yh = l])
    /\ UNCHANGED <<olvars, gwvars, ccvars, clock, live, byref, cache, ring, nq, nreq>>

\* lines 133-134: fetch_headlines_yahoo raises
FetchYahooFail ==
    /\ fq.pc = "yh"
    /\ fq' = AfterHeadlines([Failed(fq, "yahoo") EXCEPT !.error = AppendDiag(@, "yahoo")])
    /\ UNCHANGED <<olvars, gwvars, ccvars, clock, live, byref, cache, ring, nq, nreq>>

\* lines 76-80: the sentiment service answers
SentimentOk ==
    /\ fq.pc = "sent"
    /\ \E a \in SentAnswers : fq' = [Called(fq, "sentiment") EXCEPT !.sent = a, !.pc = "quote"]
    /\ UNCHANGED <<olvars, gwvars, ccvars, clock, live, byref, cache, ring, nq, nreq>>

\* lines 81-82: the sentiment call fails in any way
SentimentFail ==
    /\ fq.pc = "sent"
    /\ fq' = [Failed(fq, "sentiment") EXCEPT !.sent = SentDefault, !.pc = "quote"]
    /\ UNCHANGED <<olvars, gwvars, ccvars, clock, live, byref, cache, ring, nq, nreq>>

\* line 152: fetch_quote_tiingo returns
FetchQuoteOk ==
    /\ fq.pc = "quote"
    /\ \E a \in QuoteAnswers : fq' = [Called(fq, "quote") EXCEPT !.quote_ti = a, !.pc = "candles"]
    /\ UNCHANGED <<olvars, gwvars, ccvars, clock, live, byref, cache, ring, nq, nreq>>

\* line 152 raises: TiError or anything else
FetchQuoteFail ==
    /\ fq.pc = "quote"
    /\ \E kind \in {"TiError", "Exception"} : OuterHandler(Failed(fq, "quote"), kind)
    /\ UNCHANGED <<olvars, gwvars, ccvars, clock, live, byref, ring, nq, nreq>>

\* lines 155-164 after the candle call
AfterCandles(q) ==
    LET last_px == LastFromPrimary(q.quote_ti, q.candles)
        bid == NumOrNone(q.quote_ti.bid)
        ask == NumOrNone(q.quote_ti.ask)
        q2 == [q EXCEPT !.last_px = last_px, !.bid = bid, !.ask = ask,
                        !.quality = QualityObserved(bid, ask, last_px)]
    IN  IF last_px <= 0 THEN [q2 EXCEPT !.pc = "qfh"]
        ELSE [q2 EXCEPT !.last_px = LastOrSentinel(last_px), !.pc = "note_append"]

\* line 153: fetch_candles_tiingo returns
FetchCandlesOk ==
    /\ fq.pc = "candles"
    /\ \E l \in CandleLists : fq' = AfterCandles([Called(fq, "candles") EXCEPT !.candles = l])
    /\ UNCHANGED <<olvars, gwvars, ccvars, clock, live, byref, cache, ring, nq, nreq>>

\* line 153 raises
FetchCandlesFail ==
    /\ fq.pc = "candles"
    /\ \E kind \in {"TiError", "Exception"} : OuterHandler(Failed(fq, "candles"), kind)
    /\ UNCHANGED <<olvars, gwvars, ccvars, clock, live, byref, ring, nq, nreq>>

\* lines 166-171: fetch_quote_finnhub returns
FetchSecondaryQuoteOk ==
    /\ fq.pc = "qfh"
    /\ \E a \in SecondaryQuoteAnswers :
          fq' = [Called(fq, "quote_finnhub") EXCEPT
                    !.last_px = LastOrSentinel(IF NumOrZero(a.last) # 0 THEN Val(a.last) ELSE @),
                    !.pc = "note_append"]
    /\ UNCHANGED <<olvars, gwvars, ccvars, clock, live, byref, cache, ring, nq, nreq>>

\* lines 169-171: fetch_quote_finnhub raises, the exception is dropped
FetchSecondaryQuoteFail ==
    /\ fq.pc = "qfh"
    /\ fq' = [Failed(fq, "quote_finnhub") EXCEPT !.last_px = LastOrSentinel(@), !.pc = "note_append"]
    /\ UNCHANGED <<olvars, gwvars, ccvars, clock, live, byref, cache, ring, nq, nreq>>

\* lines 34-35 of _note_quote: read the clock, append
NoteQuoteAppend ==
    /\ fq.pc = "note_append"
    /\ ring' = [ring EXCEPT ![fq.ticker] = RingAppend(@, clock, fq.last_px)]
    /\ fq' = [fq EXCEPT !.pc = "note_trim"]
    /\ UNCHANGED <<olvars, gwvars, ccvars, clock, live, byref, cache, nq, nreq>>

\* lines 36-38 of _note_quote: read the clock, trim; then lines 176-181
NoteQuoteTrim ==
    /\ fq.pc = "note_trim"
    /\ ring' = [ring EXCEPT ![fq.ticker] = RingTrim(@, clock)]
    /\ LET fix == SpreadFix(fq.bid, fq.ask, fq.quality, fq.last_px)
       IN  fq' = [fq EXCEPT !.bid = fix.bid, !.ask = fix.ask, !.quality = fix.quality,
                            !.pc = "news"]
    /\ UNCHANGED <<olvars, gwvars, ccvars, clock, live, byref, cache, nq, nreq>>

\* lines 184-188: the headlines that carry a ts; with none of them, line 191
NewsPool ==
    /\ fq.pc = "news"
    /\ fq' = [NewsPoolStep(fq) EXCEPT
                 !.pc = IF TsPool(fq.fh, fq.yh) = <<>> THEN "derive" ELSE "news_max"]
    /\ UNCHANGED <<olvars, gwvars, ccvars, clock, live, byref, cache, ring, nq, nreq>>

\* line 189, one headline of the pool: a ts that does not parse becomes the time
\* the clock shows now (line 29)
NewsParse ==
    /\ fq.pc = "news_max"
    /\ fq' = [NewsParseStep(fq, clock) EXCEPT
                 !.pc = IF Len(fq.loc.pool) = 1 THEN "news_diff" ELSE "news_max"]
    /\ UNCHANGED <<olvars, gwvars, ccvars, clock, live, byref, cache, ring, nq, nreq>>

\* lines 190-191: the clock is read again, minutes since the latest headline
NewsRecency ==
    /\ fq.pc = "news_diff"
    /\ fq' = [NewsDiffStep(fq, clock) EXCEPT !.pc = "derive"]
    /\ UNCHANGED <<olvars, gwvars, ccvars, clock, live, byref, cache, ring, nq, nreq>>

\* lines 194-216: returns, the volatility series, above
Derive ==
    /\ fq.pc = "derive"
    /\ LET rets == Returns(fq.candles, ring[fq.ticker], clock)
       IN  fq' = [fq EXCEPT !.r_1m = rets.r_1m, !.r_5m = rets.r_5m,
                            !.r_1m_src = rets.r_1m_src, !.r_5m_src = rets.r_5m_src,
                            !.vol = Volatility(fq.candles, fq.last_px),
                            !.pc = "earnings"]
    /\ UNCHANGED <<olvars, gwvars, ccvars, clock, live, byref, cache, ring, nq, nreq>>

\* lines 232-255: liquidity, feats, payload
OkPayload(q, earnings_soon, now) ==
    LET feats == [sent_mean |-> q.sent.mean, sent_std |-> q.sent.std,
                  r_1m |-> q.r_1m, r_5m |-> q.r_5m, above_sma20 |-> q.vol.above,
                  mins_since_news |-> q.mins, earnings_soon |-> earnings_soon,
                  liquidity_flag |-> LiquidityFlag(q.bid, q.ask, q.last_px, q.candles)]
    IN  [features |-> feats, top_headline |-> q.top_headline,
         refs |-> q.refs, refs_sources |-> q.refs_sources, error |-> q.error,
         quote |-> [last |-> q.last_px, bid |-> q.bid, ask |-> q.ask, quality |-> q.quality],
         ts |-> Iso(now)]

\* the payload is returned but never stored
FinishNoCacheWrite(q, earnings_soon) ==
    /\ fq' = Return(q, "ok", OkPayload(q, earnings_soon, clock))
    /\ cache' = cache

\* lines 232-257: liquidity, feats, payload, put_cached, return
Finish(q, earnings_soon) ==
    LET payload == OkPayload(q, earnings_soon, clock)
    IN  /\ fq' = Return(q, "ok", payload)
        /\ cache' = PutCached(cache, q.ticker, payload)

\* lines 223-227: fetch_earnings_finnhub returns
FetchEarningsOk ==
    /\ fq.pc = "earnings"
    /\ \E a \in EarningsAnswers : Finish(Called(fq, "earnings"), EarningsSoon(a, clock))
    /\ UNCHANGED <<olvars, gwvars, ccvars, clock, live, byref, ring, nq, nreq>>

\* lines 228-229: FHError is dropped
FetchEarningsFHError ==
    /\ fq.pc = "earnings"
    /\ Finish(Failed(fq, "earnings"), FALSE)
    /\ UNCHANGED <<olvars, gwvars, ccvars, clock, live, byref, ring, nq, nreq>>

\* fetch_earnings_finnhub raises something that is not an FHError
FetchEarningsOther ==
    /\ fq.pc = "earnings"
    /\ OuterHandler(Failed(fq, "earnings"), "Exception")
    /\ UNCHANGED <<olvars, gwvars, ccvars, clock, live, byref, ring, nq, nreq>>

\* app.py lines 25-31: build_features_for has returned, features_v2 writes ticker
\* and a new ts into the dict it was handed and returns it; had the call raised,
\* the stub payload is returned. The dict is the cache entry when the payload
\* was put or got by reference.
features_v2 ==
    /\ fq.pc \in {"done", "raised"}
    /\ IF fq.pc = "raised"
       THEN /\ fq' = [fq EXCEPT !.pc = "answered", !.resp = Some(StubPayload(fq.ticker, clock))]
            /\ cache' = cache
       ELSE LET payload == WithTs(WithTicker(Val(fq.ret), fq.ticker), clock)
            IN  /\ fq' = [fq EXCEPT !.pc = "answered", !.ret = Some(payload), !.resp = Some(payload)]
                /\ cache' = IF byref /\ fq.path # "nonlive"
                             THEN [cache EXCEPT ![fq.ticker] = Some(payload)]
                             ELSE cache
    /\ UNCHANGED <<olvars, gwvars, ccvars, clock, live, byref, ring, nq, nreq>>

NextFeatures ==
    \/ Tick \/ Enter \/ features_v2
    \/ StartNonLive \/ StartCacheHit \/ StartCacheMiss
    \/ FetchHeadlinesOk \/ FetchHeadlinesFHError \/ FetchHeadlinesOther
    \/ FetchYahooOk \/ FetchYahooFail
    \/ SentimentOk \/ SentimentFail
    \/ FetchQuoteOk \/ FetchQuoteFail
    \/ FetchCandlesOk \/ FetchCandlesFail
    \/ FetchSecondaryQuoteOk \/ FetchSecondaryQuoteFail
    \/ NoteQuoteAppend \/ NoteQuoteTrim
    \/ NewsPool \/ NewsParse \/ NewsRecency \/ Derive
    \/ FetchEarningsOk \/ FetchEarningsFHError \/ FetchEarningsOther

SpecFeatures == InitFeatures /\ [][NextFeatures]_vars

----
\* _merge_refs applied to headline lists of every shape
MaxMergeLen == 3
H7 == Headline(" ", "e", "AP", None)
H8 == Headline("t8", " a ", "Yahoo", None)
MergeFhLists == SeqsUpTo({H1, H2, H3, H7}, MaxMergeLen)
MergeYhLists == SeqsUpTo({H4, H5, H6, H8}, MaxMergeLen)

\* fetch_headlines has returned
InitMerge ==
    /\ OlIdle /\ GwIdle /\ CcIdle
    /\ clock = 0
    /\ live = TRUE
    /\ byref = FALSE
    /\ cache = [t \in Tickers |-> None]
    /\ ring = [t \in Tickers |-> <<>>]
    /\ \E l \in MergeFhLists : fq = [Called(NewRequest("A"), "headlines") EXCEPT !.fh = l, !.pc = "yh"]
    /\ nq = NoNoteQuote
    /\ nreq = 1

\* line 132 returns, then lines 136-149
MergeYahoo ==
    /\ fq.pc = "yh"
    /\ \E l \in MergeYhLists : fq' = AfterHeadlines([Called(fq, "yahoo") EXCEPT !.yh = l])
    /\ UNCHANGED <<olvars, gwvars, ccvars, clock, live, byref, cache, ring, nq, nreq>>

NextMerge == MergeYahoo

SpecMerge == InitMerge /\ [][NextMerge]_vars

----
\* _note_quote called on its own
MaxAppends == 3
RingTickSteps == {5 * TicksPerMin, RingWindowMin * TicksPerMin + 1}
RingPrices == {10000, 10100}

InitRing ==
    /\ OlIdle /\ GwIdle /\ CcIdle
    /\ clock = 0
    /\ live = FALSE
    /\ byref = FALSE
    /\ cache = [t \in Tickers |-> None]
    /\ ring = [t \in Tickers |-> <<>>]
    /\ fq = [NewRequest("A") EXCEPT !.pc = "answered"]
    /\ nq = NoNoteQuote
    /\ nreq = 0

RingTick ==
    /\ \E d \in RingTickSteps : clock + d <= MaxClock /\ clock' = clock + d
    /\ UNCHANGED <<olvars, gwvars, ccvars, ftvars>>

\* _note_quote(ticker, last), lines 34-35: read the clock, append
DirectAppend ==
    /\ nq.pc = "idle" /\ nreq < MaxAppends
    /\ \E t \in Tickers, px \in RingPrices :
          /\ ring' = [ring EXCEPT ![t] = RingAppend(@, clock, px)]
          /\ nq' = [nq EXCEPT !.pc = "trim", !.ticker = t, !.last = px, !.at = clock, !.n = nq.n + 1]
    /\ nreq' = nreq + 1
    /\ UNCHANGED <<olvars, gwvars, ccvars, clock, live, byref, cache, fq>>

\* _note_quote, lines 36-38: read the clock, trim, return
DirectTrim ==
    /\ nq.pc = "trim"
    /\ ring' = [ring EXCEPT ![nq.ticker] = RingTrim(@, clock)]
    /\ nq' = [nq EXCEPT !.pc = "idle"]
    /\ UNCHANGED <<olvars, gwvars, ccvars, clock, live, byref, cache, fq, nreq>>

NextRing == RingTick \/ DirectAppend \/ DirectTrim

SpecRing == InitRing /\ [][NextRing]_vars

----
\* the returns of lines 194-214 computed against rings of every shape
MaxRingLen == 3
RetTimes == {0, 5 * TicksPerMin, 9 * TicksPerMin, 10 * TicksPerMin}
RetPrices == {0, 10000, 10100}
RetClocks == {10 * TicksPerMin, 11 * TicksPerMin}
RetSamples == {[ts |-> t, px |-> p] : t \in RetTimes, p \in RetPrices}

\* samples in the order a single caller appends them
TimeOrdered(r) == \A i, j \in 1..Len(r) : i < j => r[i].ts <= r[j].ts

RetRings == {r \in SeqsUpTo(RetSamples, MaxRingLen) : TimeOrdered(r)}

InitReturns ==
    /\ OlIdle /\ GwIdle /\ CcIdle
    /\ clock \in RetClocks
    /\ live = FALSE
    /\ byref = FALSE
    /\ cache = [t \in Tickers |-> None]
    /\ \E r \in RetRings : ring = [t \in Tickers |-> IF t = "A" THEN r ELSE <<>>]
    /\ fq = [NewRequest("A") EXCEPT !.pc = "answered"]
    /\ nq = NoNoteQuote
    /\ nreq = 0

\* lines 194-214 run against the ring as it stands: r_1m and r_5m
DirectReturns ==
    /\ nq.rn = 0
    /\ \E t \in Tickers, c \in CandleLists :
          nq' = [nq EXCEPT !.rn = 1, !.rticker = t, !.cn = Len(c),
                           !.rets = Returns(c, ring[t], clock)]
    /\ UNCHANGED <<olvars, gwvars, ccvars, clock, live, byref, cache, ring, fq, nreq>>

NextReturns == DirectReturns

SpecReturns == InitReturns /\ [][NextReturns]_vars

----
\* features_v2 and the build_features_for it calls, run by several threads at once,
\* live; every read or write of the cache, a ring, the clock or a shared payload
\* is a step of its own
InitConc ==
    /\ OlIdle /\ GwIdle /\ CcIdle
    /\ clock = 0
    /\ live = TRUE
    /\ byref \in BOOLEAN
    /\ cache = [t \in Tickers |-> None]
    /\ ring = [t \in Tickers |-> <<>>]
    /\ fq = [NewRequest("A") EXCEPT !.pc = "answered"]
    /\ nq = NoNoteQuote
    /\ nreq = 0

\* time passes
ConcTick ==
    /\ \E d \in FeatTickSteps : clock + d <= MaxConcClock /\ clock' = clock + d
    /\ UNCHANGED <<olvars, gwvars, ftvars, ccvars>>

\* line 34 and line 41: _QUOTE_RING is keyed by the ticker
RingOf(ticker) == ticker

\* worker w moves to q and nothing shared changes
Local(w, q) ==
    /\ cq' = [cq EXCEPT ![w] = q]
    /\ UNCHANGED <<olvars, gwvars, ftvars, clock, rver, cw>>

\* an exception is raised inside the try of build_features_for
Raise(q, kind) == [q EXCEPT !.loc.exc = kind, !.pc = "except"]

\* a request for some ticker reaches a worker: features_v2 calls build_features_for
ConcEnter(w) ==
    /\ cq[w].pc = "idle"
    /\ \E t \in Tickers : Local(w, NewRequest(t))

\* lines 106-109: get_cached, return on a hit
ConcStart(w) ==
    /\ cq[w].pc = "start"
    /\ LET cached == GetCached(cache, cq[w].ticker)
       IN  Local(w, IF IsSome(cached)
                    THEN [Return(cq[w], "hit", Val(cached)) EXCEPT !.loc.obj = cw[cq[w].ticker]]
                    ELSE [cq[w] EXCEPT !.pc = "fetch"])

\* line 127: fetch_headlines returns one headline
ConcFetchHeadlines(w) ==
    /\ cq[w].pc = "fetch"
    /\ Local(w, [Called(cq[w], "headlines") EXCEPT !.fh = <<H1>>, !.pc = "yh"])

\* lines 132-148: fetch_headlines_yahoo returns no headline; top headline, refs
ConcFetchYahoo(w) ==
    /\ cq[w].pc = "yh"
    /\ Local(w, AfterHeadlines([Called(cq[w], "yahoo") EXCEPT !.yh = <<>>]))

\* line 149 (the POST of line 76): the sentiment service answers
ConcSentiment(w) ==
    /\ cq[w].pc = "sent"
    /\ \E a \in SentAnswers :
          Local(w, [Called(cq[w], "sentiment") EXCEPT !.sent = a, !.pc = "quote"])

\* line 152: fetch_quote_tiingo returns
ConcFetchQuoteOk(w) ==
    /\ cq[w].pc = "quote"
    /\ \E a \in ConcQuotes :
          Local(w, [Called(cq[w], "quote") EXCEPT !.quote_ti = a, !.pc = "candles"])

\* line 152: fetch_quote_tiingo raises TiError
ConcFetchQuoteFail(w) ==
    /\ cq[w].pc = "quote"
    /\ Local(w, Raise(Failed(cq[w], "quote"), "TiError"))

\* lines 153-171: fetch_candles_tiingo returns no candles; last_px, quality
ConcFetchCandles(w) ==
    /\ cq[w].pc = "candles"
    /\ Local(w, [AfterCandles([Called(cq[w], "candles") EXCEPT !.candles = <<>>])
                     EXCEPT !.pc = "nq_read"])

\* line 35, the argument of append: datetime.now(timezone.utc)
ConcNoteRead(w) ==
    /\ cq[w].pc = "nq_read"
    /\ Local(w, [cq[w] EXCEPT !.loc.ts = clock, !.pc = "nq_append"])

\* line 35: ring.append
ConcNoteAppend(w) ==
    /\ cq[w].pc = "nq_append"
    /\ LET k == RingOf(cq[w].ticker)
       IN  /\ ring' = [ring EXCEPT ![k] = RingAppend(@, cq[w].loc.ts, cq[w].last_px)]
           /\ rver' = [rver EXCEPT ![k] = @ + 1]
    /\ cq' = [cq EXCEPT ![w].pc = "nq_cut"]
    /\ UNCHANGED <<olvars, gwvars, clock, live, byref, cache, fq, nq, nreq, cw>>

\* line 36: cut
ConcNoteCut(w) ==
    /\ cq[w].pc = "nq_cut"
    /\ Local(w, [cq[w] EXCEPT !.loc.cut = clock - RingWindowMin * TicksPerMin, !.pc = "nq_test"])

\* _note_quote returns; lines 176-181
AfterNote(q) ==
    LET fix == SpreadFix(q.bid, q.ask, q.quality, q.last_px)
    IN  [q EXCEPT !.bid = fix.bid, !.ask = fix.ask, !.quality = fix.quality, !.pc = "news"]

\* line 37: `while ring`
ConcNoteTest(w) ==
    /\ cq[w].pc = "nq_test"
    /\ Local(w, IF ring[RingOf(cq[w].ticker)] = <<>> THEN AfterNote(cq[w])
                ELSE [cq[w] EXCEPT !.pc = "nq_head"])

\* line 37: `ring[0][0] < cut`; IndexError on a deque emptied meanwhile
ConcNoteHead(w) ==
    /\ cq[w].pc = "nq_head"
    /\ LET r == ring[RingOf(cq[w].ticker)]
       IN  Local(w, IF r = <<>> THEN Raise(cq[w], "Exception")
                    ELSE IF Stale(Head(r), cq[w].loc.cut) THEN [cq[w] EXCEPT !.pc = "nq_pop"]
                    ELSE AfterNote(cq[w]))

\* line 38: ring.popleft(); IndexError on a deque emptied meanwhile
ConcNotePop(w) ==
    /\ cq[w].pc = "nq_pop"
    /\ LET k == RingOf(cq[w].ticker)
       IN  IF ring[k] = <<>>
           THEN /\ cq' = [cq EXCEPT ![w] = Raise(cq[w], "Exception")]
                /\ UNCHANGED <<ring, rver>>
           ELSE /\ ring' = [ring EXCEPT ![k] = Tail(@)]
                /\ rver' = [rver EXCEPT ![k] = @ + 1]
                /\ cq' = [cq EXCEPT ![w].pc = "nq_test"]
    /\ UNCHANGED <<olvars, gwvars, clock, live, byref, cache, fq, nq, nreq, cw>>

\* the calls of _ret_from_ring lines 194-214 make, by their minutes argument
RingCalls(candles) ==
    IF Len(candles) >= 2 THEN (IF Len(candles) >= 6 THEN <<>> ELSE <<5>>) ELSE <<1, 5>>

\* lines 204-216 once the returns are known
AfterReturns(q) == [q EXCEPT !.vol = Volatility(q.candles, q.last_px), !.pc = "earnings"]

\* lines 184-188: the headlines that carry a ts
ConcNewsPool(w) ==
    /\ cq[w].pc = "news"
    /\ Local(w, [NewsPoolStep(cq[w]) EXCEPT
                    !.pc = IF TsPool(cq[w].fh, cq[w].yh) = <<>> THEN "news_diff" ELSE "news_max"])

\* line 189, one headline of the pool
ConcNewsParse(w) ==
    /\ cq[w].pc = "news_max"
    /\ Local(w, [NewsParseStep(cq[w], clock) EXCEPT
                    !.pc = IF Len(cq[w].loc.pool) = 1 THEN "news_diff" ELSE "news_max"])

\* lines 190-198: minutes since the news, the returns the candles give
ConcNews(w) ==
    /\ cq[w].pc = "news_diff"
    /\ LET q == cq[w]
           rets == Returns(q.candles, <<>>, clock)
           q2 == [IF q.loc.latest = None THEN q ELSE NewsDiffStep(q, clock) EXCEPT
                           !.r_1m = rets.r_1m, !.r_1m_src = rets.r_1m_src,
                           !.r_5m = rets.r_5m, !.r_5m_src = rets.r_5m_src,
                           !.loc.todo = RingCalls(q.candles)]
       IN  Local(w, IF q2.loc.todo = <<>> THEN AfterReturns(q2) ELSE [q2 EXCEPT !.pc = "ret_open"])

\* _ret_from_ring returns x
RetDone(q, x) ==
    LET q2 == IF Head(q.loc.todo) = 1 THEN [q EXCEPT !.r_1m = x] ELSE [q EXCEPT !.r_5m = x]
        q3 == [q2 EXCEPT !.loc.todo = Tail(@), !.loc.base = None, !.loc.it = NoLocals.it,
                         !.loc.cutoff = 0]
    IN  IF q3.loc.todo = <<>> THEN AfterReturns(q3) ELSE [q3 EXCEPT !.pc = "ret_open"]

\* lines 41-42: the ring is looked up; `if not ring` returns 0.0
ConcRetOpen(w) ==
    /\ cq[w].pc = "ret_open"
    /\ Local(w, IF ring[RingOf(cq[w].ticker)] = <<>> THEN RetDone(cq[w], Zero)
                ELSE [cq[w] EXCEPT !.pc = "ret_cutoff"])

\* lines 43-44: cutoff = datetime.now(timezone.utc) - timedelta(minutes=minutes)
ConcRetCutoff(w) ==
    /\ cq[w].pc = "ret_cutoff"
    /\ Local(w, [cq[w] EXCEPT !.loc.cutoff = clock - Head(cq[w].loc.todo) * TicksPerMin,
                              !.loc.base = None,
                              !.pc = "ret_iter"])

\* line 45: reversed(ring) takes the length and the mutation counter of the deque
ConcRetIter(w) ==
    /\ cq[w].pc = "ret_iter"
    /\ LET k == RingOf(cq[w].ticker)
       IN  Local(w, [cq[w] EXCEPT !.loc.it = [n |-> Len(ring[k]), ver |-> rver[k]],
                                  !.pc = "ret_next"])

\* lines 45-47: one step of the for loop; the iterator raises RuntimeError when
\* the deque was mutated since it was made
ConcRetNext(w) ==
    /\ cq[w].pc = "ret_next"
    /\ LET q == cq[w]
           k == RingOf(q.ticker)
       IN  Local(w, IF q.loc.it.n = 0 THEN [q EXCEPT !.pc = "ret_last"]
                    ELSE IF rver[k] # q.loc.it.ver THEN Raise(q, "Exception")
                    ELSE LET sample == ring[k][q.loc.it.n]
                         IN  [q EXCEPT !.loc.base = Some(sample.px), !.loc.it.n = @ - 1,
                                       !.pc = IF sample.ts <= q.loc.cutoff THEN "ret_last"
                                              ELSE "ret_next"])

\* lines 48-50: the zero test, ring[-1], the quotient
ConcRetLast(w) ==
    /\ cq[w].pc = "ret_last"
    /\ LET q == cq[w]
           r == ring[RingOf(q.ticker)]
       IN  Local(w, IF q.loc.base = None \/ Val(q.loc.base) = 0 THEN RetDone(q, Zero)
                    ELSE IF r = <<>> THEN Raise(q, "Exception")
                    ELSE RetDone(q, Quot(r[Len(r)].px - Val(q.loc.base), Val(q.loc.base))))

\* lines 221-229: fetch_earnings_finnhub returns no date
ConcEarnings(w) ==
    /\ cq[w].pc = "earnings"
    /\ Local(w, [Called(cq[w], "earnings") EXCEPT !.pc = "payload"])

\* lines 232-255: liquidity, feats, the payload with ts = iso_now()
ConcPayload(w) ==
    /\ cq[w].pc = "payload"
    /\ Local(w, [cq[w] EXCEPT !.loc.payload = Some(OkPayload(cq[w], FALSE, clock)),
                              !.pc = "put"])

\* the dict that worker w built is now in the cache (when the cache keeps the
\* dict) and is what w returns
Stored(q, w, path) ==
    [Return(q, path, Val(q.loc.payload)) EXCEPT !.loc.payload = None, !.loc.obj = w]

\* lines 256-257: put_cached, return
ConcFinish(w) ==
    /\ cq[w].pc = "put"
    /\ cq' = [cq EXCEPT ![w] = Stored(cq[w], w, "ok")]
    /\ cache' = PutCached(cache, cq[w].ticker, Val(cq[w].loc.payload))
    /\ cw' = [cw EXCEPT ![cq[w].ticker] = w]
    /\ UNCHANGED <<olvars, gwvars, clock, live, byref, ring, fq, nq, nreq, rver>>

\* lines 259-272: the handler sets error, the synthetic payload with ts = iso_now()
ConcHandler(w) ==
    /\ cq[w].pc = "except"
    /\ LET q == cq[w]
           error == SetDiag(q.error, IF q.loc.exc = "TiError" THEN "tiingo" ELSE "providers failed")
       IN  Local(w, [q EXCEPT !.error = error,
                              !.loc.payload = Some(SyntheticPayload(q.top_headline, error, clock)),
                              !.pc = "put_degraded"])

\* lines 273-274: put_cached, return
ConcHandlerPut(w) ==
    /\ cq[w].pc = "put_degraded"
    /\ cq' = [cq EXCEPT ![w] = Stored(cq[w], w, "degraded")]
    /\ cache' = PutCached(cache, cq[w].ticker, Val(cq[w].loc.payload))
    /\ cw' = [cw EXCEPT ![cq[w].ticker] = w]
    /\ UNCHANGED <<olvars, gwvars, clock, live, byref, ring, fq, nq, nreq, rver>>

\* the workers whose payload is the dict worker w holds: with a cache that keeps
\* the dict, every worker that put it or got it; with a cache that copies, w alone
Holders(w) ==
    IF byref THEN {v \in Workers : IsSome(cq[v].ret) /\ cq[v].loc.obj = cq[w].loc.obj}
    ELSE {w}

\* the ticker's cache entry is the dict worker w holds
HoldsEntry(w) == byref /\ cw[cq[w].ticker] = cq[w].loc.obj

\* app.py line 26: payload["ticker"] = ticker, on the dict build_features_for returned
ConcTicker(w) ==
    /\ cq[w].pc = "done"
    /\ LET t == cq[w].ticker
           hs == Holders(w)
       IN  /\ cq' = [v \in Workers |->
                        IF v = w THEN [cq[v] EXCEPT !.ret = Some(WithTicker(Val(@), t)), !.pc = "v2_now"]
                        ELSE IF v \in hs THEN [cq[v] EXCEPT !.ret = Some(WithTicker(Val(@), t))]
                        ELSE cq[v]]
           /\ cache' = IF HoldsEntry(w) THEN [cache EXCEPT ![t] = Some(WithTicker(Val(@), t))]
                        ELSE cache
    /\ UNCHANGED <<olvars, gwvars, clock, live, byref, ring, fq, nq, nreq, rver, cw>>

\* app.py line 27, the right-hand side: ts_utc_now()
ConcTsNow(w) ==
    /\ cq[w].pc = "v2_now"
    /\ Local(w, [cq[w] EXCEPT !.loc.ts = clock, !.pc = "v2_ts"])

\* app.py lines 27-28: payload["ts"] is stored, the payload returned
ConcTsStore(w) ==
    /\ cq[w].pc = "v2_ts"
    /\ LET t == cq[w].ticker
           now == cq[w].loc.ts
           hs == Holders(w)
       IN  /\ cq' = [v \in Workers |->
                        IF v = w THEN [cq[v] EXCEPT !.ret = Some(WithTs(Val(@), now)),
                                                   !.resp = Some(WithTs(Val(cq[v].ret), now)),
                                                   !.pc = "answered"]
                        ELSE IF v \in hs THEN [cq[v] EXCEPT !.ret = Some(WithTs(Val(@), now))]
                        ELSE cq[v]]
           /\ cache' = IF HoldsEntry(w) THEN [cache EXCEPT ![t] = Some(WithTs(Val(@), now))]
                        ELSE cache
    /\ UNCHANGED <<olvars, gwvars, clock, live, byref, ring, fq, nq, nreq, rver, cw>>

\* the steps of worker w
ConcStep(w) ==
    \/ ConcStart(w) \/ ConcFetchHeadlines(w) \/ ConcFetchYahoo(w) \/ ConcSentiment(w)
    \/ ConcFetchQuoteOk(w) \/ ConcFetchQuoteFail(w) \/ ConcFetchCandles(w)
    \/ ConcNoteRead(w) \/ ConcNoteAppend(w) \/ ConcNoteCut(w)
    \/ ConcNoteTest(w) \/ ConcNoteHead(w) \/ ConcNotePop(w)
    \/ ConcNewsPool(w) \/ ConcNewsParse(w) \/ ConcNews(w)
    \/ ConcRetOpen(w) \/ ConcRetCutoff(w) \/ ConcRetIter(w)
    \/ ConcRetNext(w) \/ ConcRetLast(w)
    \/ ConcEarnings(w) \/ ConcPayload(w) \/ ConcFinish(w)
    \/ ConcHandler(w) \/ ConcHandlerPut(w)
    \/ ConcTicker(w) \/ ConcTsNow(w) \/ ConcTsStore(w)

NextConc ==
    \/ ConcTick
    \/ \E w \in Workers :
          \/ ConcEnter(w)
          \/ ConcStart(w) \/ ConcFetchHeadlines(w) \/ ConcFetchYahoo(w) \/ ConcSentiment(w)
          \/ ConcFetchQuoteOk(w) \/ ConcFetchQuoteFail(w) \/ ConcFetchCandles(w)
          \/ ConcNoteRead(w) \/ ConcNoteAppend(w) \/ ConcNoteCut(w)
          \/ ConcNoteTest(w) \/ ConcNoteHead(w) \/ ConcNotePop(w)
          \/ ConcNewsPool(w) \/ ConcNewsParse(w) \/ ConcNews(w)
          \/ ConcRetOpen(w) \/ ConcRetCutoff(w) \/ ConcRetIter(w)
          \/ ConcRetNext(w) \/ ConcRetLast(w)
          \/ ConcEarnings(w) \/ ConcPayload(w) \/ ConcFinish(w)
          \/ ConcHandler(w) \/ ConcHandlerPut(w)
          \/ ConcTicker(w) \/ ConcTsNow(w) \/ ConcTsStore(w)

SpecConc == InitConc /\ [][NextConc]_vars

(***************************************************************************)
(* Properties                                                              *)
(***************************************************************************)

\* C1: every gateway network call (stage 1 is _get_json, stages 2 and 3 are
\* _post_json) that returned a response did so at its first successful attempt,
\* after k failures with k <= RETRIES, i.e. after exactly k+1 attempts; a call
\* that reported 502 made exactly RETRIES+1 attempts, all of them failures; no
\* call ever makes more than RETRIES+1 attempts.
C1_RetryAttempts ==
    \A st \in 1..3 :
        /\ glog[st].att <= gretries + 1
        /\ glog[st].out = "ok" =>
              /\ glog[st].att = glog[st].fail + 1
              /\ glog[st].fail <= gretries
        /\ glog[st].out = "502" =>
              /\ glog[st].att = gretries + 1
              /\ glog[st].fail = glog[st].att
        /\ (st = 1 /\ glog[st].out = "ok") => IsSome(gctx)
        /\ (st = 2 /\ glog[st].out = "ok") => IsSome(grec)

\* retries=2: the feature call failed twice then succeeded (3 attempts) and the
\* recommendation call failed on all 3 attempts
C1_Witness ==
    /\ gretries = 2
    /\ glog[1] = [att |-> 3, fail |-> 2, out |-> "ok"]
    /\ glog[2] = [att |-> 3, fail |-> 3, out |-> "502"]
    /\ IsSome(gresp) /\ Val(gresp).status = 502

\* the whole percents that stand for a confidence of p thousandths: p / 10 with
\* the fraction dropped and, the product being a binary float, one less when
\* p / 10 is whole
C2_Percents(p) == {n \in 0..100 : 10 * n <= p /\ p <= 10 * n + 10}

\* the local templates for a recommendation: class, middle dot, whole percent
C2_Templates(rec) ==
    {LabelChars(IF rec.class = NoKey THEN "NO_ACTION" ELSE Val(rec.class[1]))
     \o <<" ", "U+00B7", " ">> \o IntStr(n)
     \o <<"%", " ", "c", "o", "n", "f", "i", "d", "e", "n", "c", "e">> :
        n \in C2_Percents(IF rec.confidence = NoKey THEN 0 ELSE Val(rec.confidence[1]))}

\* C2: a finished run request is an upstream failure (502) iff stage 1 or stage
\* 2 exhausted its retries, and then no later stage was attempted; when stages
\* 1 and 2 succeeded the request returns the composite response whatever stage
\* 3 did, and if stage 3 exhausted its retries the one_liner text is the local
\* template of the recommendation's class and confidence.
C2_RunOutcome ==
    gpc = "done" =>
        /\ IsSome(gresp)
        /\ Val(gresp).status = 502 <=> (glog[1].out = "502" \/ glog[2].out = "502")
        /\ glog[1].out = "502" => (glog[2].att = 0 /\ glog[3].att = 0)
        /\ glog[2].out = "502" => glog[3].att = 0
        /\ (glog[1].out = "ok" /\ glog[2].out = "ok") =>
              /\ Val(gresp).status = 200
              /\ IsSome(Val(gresp).body)
              /\ Val(Val(gresp).body).recommendation = Val(grec)
              /\ glog[3].out = "502" =>
                    Val(Val(gresp).body).one_liner.text \in C2_Templates(Val(grec))

\* stages 1 and 2 succeeded, stage 3 failed on every attempt, and the request
\* returned 200 with the template "IRON_CONDOR · 73% confidence" (confidence 0.735)
C2_Witness ==
    /\ gpc = "done" /\ IsSome(gresp) /\ Val(gresp).status = 200
    /\ glog[3].out = "502" /\ glog[3].att = gretries + 1 /\ gretries >= 1
    /\ Val(grec) = [class |-> Entry(Some("IRON_CONDOR")), confidence |-> Entry(Some(735))]
    /\ Val(Val(gresp).body).one_liner.text =
          <<"I", "R", "O", "N", "_", "C", "O", "N", "D", "O", "R", " ", "U+00B7", " ",
            "7", "3", "%", " ", "c", "o", "n", "f", "i", "d", "e", "n", "c", "e">>

\* C3: immediately after a call of _note_quote returns, the ticker's ring holds
\* at most 600 samples, none older than 10 minutes before the time of the
\* append, and its last element is the sample just appended.
C3_RingAfterAppend ==
    (nq.pc = "idle" /\ nq.n > 0) =>
        LET r == ring[nq.ticker]
        IN  /\ Len(r) <= 600
            /\ \A i \in 1..Len(r) : r[i].ts >= nq.at - 10 * TicksPerMin
            /\ r # <<>>
            /\ r[Len(r)] = [ts |-> nq.at, px |-> nq.last]

\* C4: the refs of every payload build_features_for returns has exactly 3 slots.
C4_RefsThreeSlots == IsSome(fq.ret) => Len(Val(fq.ret).refs) = 3

\* bid/ask of the primary quote were both observed with ask > bid
C5_Observed(q) ==
    /\ IsSome(q.quote_ti.bid) /\ Val(q.quote_ti.bid) # 0
    /\ IsSome(q.quote_ti.ask) /\ Val(q.quote_ti.ask) # 0
    /\ Val(q.quote_ti.ask) > Val(q.quote_ti.bid)

\* C5: in a returned payload, quality is "estimated" exactly when bid/ask were
\* synthesized, "real" whenever both were observed with ask > bid (whatever the
\* source of the last price), and "unknown" only in the synthetic payload.
C5_QuoteQuality ==
    (fq.pc = "done" /\ IsSome(fq.ret)) =>
        LET quality == Val(fq.ret).quote.quality
        IN  /\ fq.path = "ok" => (quality = "estimated" <=> ~C5_Observed(fq))
            /\ (fq.path = "ok" /\ C5_Observed(fq)) => quality = "real"
            /\ quality = "unknown" => Val(fq.ret).features = _synthetic_feats

\* C6: in every returned payload mins_since_news is in [0, 240], and it is 240
\* after a live aggregation in which no headline carried a timestamp.
C6_MinsRange ==
    (fq.pc = "done" /\ IsSome(fq.ret)) =>
        LET m == Val(fq.ret).features.mins_since_news
        IN  /\ m \in 0..240
            /\ (fq.path = "ok" /\ \A i \in 1..Len(fq.fh \o fq.yh) : (fq.fh \o fq.yh)[i].ts = None)
                  => m = 240

\* the first 3 slots of the request's refs
C7_Slots == IF olin.refs = None THEN <<>> ELSE SubSeq(Val(olin.refs), 1, Min(3, Len(Val(olin.refs))))

\* the positions among them that hold a dict with a non-empty url
C7_Present == {i \in 1..Len(C7_Slots) : C7_Slots[i] # None /\ Val(C7_Slots[i]).url # ""}

\* the j-th such position
C7_Nth(j) == CHOOSE i \in C7_Present : Cardinality({k \in C7_Present : k <= i}) = j

C7_Suffix(count) ==
    CASE count = 0 -> <<>>
      [] count = 1 -> <<" ", "(", "[", "1", "]", ")">>
      [] count = 2 -> <<" ", "(", "[", "1", "]", "[", "2", "]", ")">>
      [] count = 3 -> <<" ", "(", "[", "1", "]", "[", "2", "]", "[", "3", "]", ")">>

\* the composer has answered the request with a response
C7_Answered == IsSome(olout) /\ ~IsRaised(Val(olout))

\* C7: in every response, the composer numbers exactly the slots, among the
\* first 3, that have a non-empty url, with 1, 2, ... in slot order; refs_numbers
\* lists {n, url} for those slots in order; the text ends with the suffix listing
\* exactly those numbers, and with no suffix when no ref is present.
C7_DenseNumbering ==
    C7_Answered =>
        LET out == Val(olout)
            count == Cardinality(C7_Present)
        IN  /\ Len(out.refs_numbers) = count
            /\ \A j \in 1..count :
                  out.refs_numbers[j] = [n |-> j, url |-> Val(C7_Slots[C7_Nth(j)]).url]
            /\ Len(out.text) < OneLinerMax =>
                  LET tail == SubSeq(out.text, Len(out.text) - Len(C7_Suffix(count)) + 1, Len(out.text))
                      body == SubSeq(out.text, 1, Len(out.text) - Len(C7_Suffix(count)))
                  IN  /\ tail = C7_Suffix(count)
                      /\ body[Len(body)] = "U+201D"

\* refs [{url:a}, None, {url:b}] gave ([1][2]) with 1->a, 2->b
C7_Witness ==
    /\ C7_Answered
    /\ olin.refs = Some(<<Some([url |-> "a"]), None, Some([url |-> "b"])>>)
    /\ olin.publisher = <<"R", "e", "u", "t", "e", "r", "s">>
    /\ Val(olout).refs_numbers = <<[n |-> 1, url |-> "a"], [n |-> 2, url |-> "b"]>>
    /\ SubSeq(Val(olout).text, Len(Val(olout).text) - 8, Len(Val(olout).text))
          = <<" ", "(", "[", "1", "]", "[", "2", "]", ")">>

\* the text of the request before any truncation: phrase, source clause, suffix
C8_Untruncated ==
    _strategy_phrase(olin.class_) \o SourceLit
    \o (IF olin.publisher = <<>> THEN NewsLit ELSE olin.publisher) \o EmDashLit
    \o C7_Suffix(Cardinality(C7_Present))

\* C8: the one-liner text has at most 180 characters; a text that had to be
\* truncated is its first 177 characters followed by one ellipsis marker, and
\* the character before the marker is not whitespace; a text of at most 180
\* characters is returned unchanged.
C8_Clamp ==
    C7_Answered =>
        LET text == Val(olout).text
            raw == C8_Untruncated
        IN  /\ Len(text) <= 180
            /\ Len(raw) > 180 =>
                  /\ text = SubSeq(raw, 1, 177) \o EllipsisLit
                  /\ text[177] \notin Whitespace
            /\ Len(raw) <= 180 => text = raw

\* the steps of build_features_for
HandlerStep ==
    \/ StartNonLive \/ StartCacheHit \/ StartCacheMiss
    \/ FetchHeadlinesOk \/ FetchHeadlinesFHError \/ FetchHeadlinesOther
    \/ FetchYahooOk \/ FetchYahooFail
    \/ SentimentOk \/ SentimentFail
    \/ FetchQuoteOk \/ FetchQuoteFail
    \/ FetchCandlesOk \/ FetchCandlesFail
    \/ FetchSecondaryQuoteOk \/ FetchSecondaryQuoteFail
    \/ NoteQuoteAppend \/ NoteQuoteTrim
    \/ NewsPool \/ NewsParse \/ NewsRecency \/ Derive
    \/ FetchEarningsOk \/ FetchEarningsFHError \/ FetchEarningsOther

PayloadKeys == {"features", "top_headline", "refs", "refs_sources", "error", "quote", "ts"}

\* C9: no exception leaves build_features_for whatever the provider calls do:
\* a call in progress can always take its next step, a finished call has
\* returned a payload with features, refs, refs_sources, quote, error and ts,
\* and the degraded payload of a live aggregation carries a non-null error;
\* features_v2 then answers with that payload, ticker added.
C9_NoEscape ==
    /\ fq.pc # "raised"
    /\ fq.pc \notin {"done", "answered"} => ENABLED HandlerStep
    /\ fq.pc = "done" =>
          /\ IsSome(fq.ret)
          /\ PayloadKeys \subseteq DOMAIN Val(fq.ret)
          /\ fq.path = "degraded" =>
                (Val(fq.ret).error # <<>> /\ Val(cache[fq.ticker]).error # <<>>)
    /\ (fq.pc = "answered" /\ nreq > 0) =>
          /\ fq.resp = fq.ret /\ IsSome(fq.resp)
          /\ PayloadKeys \cup {"ticker"} \subseteq DOMAIN Val(fq.resp)

\* the earnings call raised an error that is not an FHError, after a headline
\* failure, and the call returned the degraded payload with an error
C9_Witness ==
    /\ fq.pc = "done" /\ fq.path = "degraded"
    /\ fq.failed = <<"headlines", "earnings">>
    /\ IsSome(fq.ret) /\ Val(fq.ret).error = <<"providers failed">>
    /\ Val(fq.ret).quote.quality = "unknown"

\* C10: in a live aggregation a failure of the primary quote call or of the
\* candle call keeps the headlines in refs; after a primary quote failure the
\* secondary quote provider is still called; after a candle failure the payload
\* still carries a quote from the remaining sources.
C10_Isolation ==
    (fq.pc = "done" /\ fq.path \in {"ok", "degraded"}) =>
        LET merged == _merge_refs(fq.fh, fq.yh)
            refs == Val(fq.ret).refs
            has(name) == \E i \in 1..Len(fq.failed) : fq.failed[i] = name
        IN  /\ (has("quote") \/ has("candles")) =>
                  \A i \in 1..Len(merged) : \E j \in 1..Len(refs) : refs[j] = Some(merged[i])
            /\ has("quote") => \E i \in 1..Len(fq.calls) : fq.calls[i] = "quote_finnhub"
            /\ has("candles") => Val(fq.ret).quote.last > 0

\* the provider calls that failed during the aggregation, in order
C11_ProviderFailures(q) == SelectSeq(q.failed, LAMBDA name : name # "sentiment")

\* C11: the error of a payload returned by a live aggregation holds one
\* diagnostic for every provider call that failed (primary headlines, secondary
\* headlines, primary quote, candles, secondary quote, earnings date), in the
\* order of the failures, none lost or overwritten; error is null exactly when
\* no provider call failed.
C11_Diagnostics ==
    (fq.pc = "done" /\ fq.path \in {"ok", "degraded"}) =>
        LET f == C11_ProviderFailures(fq)
            e == Val(fq.ret).error
        IN  /\ Len(e) = Len(f)
            /\ \A i \in 1..Len(f) :
                  /\ f[i] = "headlines" => e[i] \in {"news", "providers failed"}
                  /\ f[i] = "yahoo" => e[i] = "yahoo"
                  /\ f[i] \in {"quote", "candles"} => e[i] \in {"tiingo", "providers failed"}

\* C12: a live call that finds a cache entry for its ticker returns exactly that
\* entry in one step, with no provider or sentiment call, no ring append and no
\* cache write, however long ago the entry was written and whether or not it is
\* a degraded payload; a call that is not live returns the synthetic payload
\* whatever the cache holds.
C12_CacheHit ==
    [][(fq.pc = "start" /\ fq' # fq) =>
          /\ (live /\ IsSome(cache[fq.ticker])) =>
                /\ fq'.pc = "done" /\ fq'.ret = cache[fq.ticker]
                /\ fq'.calls = <<>>
                /\ ring' = ring /\ cache' = cache
          /\ ~live =>
                /\ fq'.pc = "done" /\ fq'.calls = <<>>
                /\ fq'.ret = Some(SyntheticPayload(None, <<>>, clock))]_vars

\* a hit on a degraded payload cached at least ten minutes earlier
C12_Witness ==
    /\ fq.pc = "done" /\ fq.path = "hit"
    /\ Val(fq.ret).error # <<>>
    /\ Val(fq.ret).ts.t + RingWindowMin * TicksPerMin <= clock

\* C13: when a call that was not served from a cache hit has returned (live and
\* successful, live and degraded, or not live), the ticker's cache entry is the
\* payload it returned.
C13_WritesCache ==
    (fq.pc = "done" /\ fq.path \in {"ok", "degraded", "nonlive"}) =>
        cache[fq.ticker] = fq.ret

\* the headlines offered to the merge, primary list first
C14_All == fq.fh \o fq.yh

\* entry i has a title and a URL
C14_Valid(i) == AtomStrip(C14_All[i].title) # "" /\ AtomStrip(C14_All[i].url) # ""

\* entry i is the first valid entry with its URL
C14_First(i) ==
    /\ C14_Valid(i)
    /\ \A j \in 1..(i - 1) : C14_Valid(j) => AtomStrip(C14_All[j].url) # AtomStrip(C14_All[i].url)

\* the indices the policy takes
C14_Taken == Take(SelectSeq([i \in 1..Len(C14_All) |-> i], C14_First), 3)

C14_Merged == \E k \in 1..Len(fq.calls) : fq.calls[k] = "yahoo"

\* C14: once the two headline lists are merged, the non-empty slots of refs are
\* the first up to 3 entries, primary list then secondary list, that have a title
\* and a URL and whose URL was not taken before; no two slots share a URL; the
\* number of non-empty slots is min(3, number of distinct URLs among the entries
\* with title and URL). The payload of a successful aggregation carries these refs.
C14_MergePolicy ==
    C14_Merged =>
        LET slots == SelectSeq(fq.refs, IsSome)
            urls == {AtomStrip(C14_All[i].url) : i \in {j \in 1..Len(C14_All) : C14_Valid(j)}}
        IN  /\ Len(slots) = Len(C14_Taken)
            /\ \A k \in 1..Len(slots) :
                  /\ Val(slots[k]).url = AtomStrip(C14_All[C14_Taken[k]].url)
                  /\ Val(slots[k]).title = AtomStrip(C14_All[C14_Taken[k]].title)
            /\ \A k, n \in 1..Len(slots) : k # n => Val(slots[k]).url # Val(slots[n]).url
            /\ Len(slots) = Min(3, Cardinality(urls))
            /\ (fq.pc = "done" /\ fq.path = "ok") => Val(fq.ret).refs = fq.refs

\* a repeated URL was skipped, an entry without URL was skipped, and a fourth
\* distinct URL was cut off
C14_Witness ==
    /\ C14_Merged
    /\ Len(SelectSeq(fq.refs, IsSome)) = 3
    /\ \E i \in 1..Len(C14_All) : C14_Valid(i) /\ ~C14_First(i) /\ i < C14_Taken[3]
    /\ \E i \in 1..Len(C14_All) : ~C14_Valid(i)
    /\ \E i \in 1..Len(C14_All) : C14_First(i) /\ i > C14_Taken[3]

\* C15: in every returned payload the non-empty slots of refs are a prefix of
\* the slots, refs_sources[i] is the publisher of refs[i] for every non-empty
\* slot i, and refs_sources has as many entries as refs has non-empty slots.
C15_Parallel ==
    (fq.pc = "done" /\ IsSome(fq.ret)) =>
        LET refs == Val(fq.ret).refs
            sources == Val(fq.ret).refs_sources
            filled == {i \in 1..Len(refs) : IsSome(refs[i])}
        IN  /\ \A i \in filled : \A j \in 1..i : j \in filled
            /\ \A i \in filled : i <= Len(sources) /\ sources[i] = Val(refs[i]).publisher
            /\ Len(sources) = Cardinality(filled)

\* a returned payload with one filled slot, its publisher defaulted, and two empty slots
C15_Witness ==
    /\ fq.pc = "done" /\ IsSome(fq.ret)
    /\ LET refs == Val(fq.ret).refs
       IN  /\ Len(refs) = 3 /\ IsSome(refs[1]) /\ refs[2] = None /\ refs[3] = None
           /\ Val(fq.ret).refs_sources = <<"News">>

\* the baseline of the claim: the newest sample at or before the cutoff, else the oldest
C17_Base(r, cutoff) ==
    LET old == {i \in 1..Len(r) : r[i].ts <= cutoff}
    IN  IF old # {} THEN r[Maximum(old)].px ELSE r[1].px

\* the value the claim gives _ret_from_ring
C17_Expected(r, now, minutes) ==
    IF r = <<>> THEN Zero
    ELSE LET base == C17_Base(r, now - minutes * TicksPerMin)
         IN  IF base = 0 THEN Zero ELSE Quot(r[Len(r)].px - base, base)

\* C17: _ret_from_ring takes as baseline the first sample, scanning from the
\* newest backward, whose timestamp is <= now - minutes, or the oldest sample
\* when there is none, and returns (last - base) / base; it returns 0.0 for a
\* missing or empty ring and for a zero baseline. The aggregation uses it for
\* the 1-minute return exactly when it has fewer than 2 candles and for the
\* 5-minute return exactly when it has fewer than 6.
C17_RetFromRing ==
    [][nq'.rn # nq.rn =>
          LET r == ring[nq'.rticker]
              rets == nq'.rets
          IN  /\ rets.r_1m_src = "ring" <=> nq'.cn < 2
              /\ rets.r_5m_src = "ring" <=> nq'.cn < 6
              /\ rets.r_1m_src = "ring" => rets.r_1m = C17_Expected(r, clock, 1)
              /\ rets.r_5m_src = "ring" => rets.r_5m = C17_Expected(r, clock, 5)
              /\ (r = <<>> /\ nq'.cn < 2) => rets.r_1m = Zero /\ rets.r_5m = Zero]_vars

\* with 2 to 5 candles the 1-minute return came from the candles and the
\* 5-minute return from a ring whose baseline is an older sample at another price
C17_Witness ==
    /\ nq.rn > 0
    /\ nq.rets.r_1m_src = "candles" /\ nq.rets.r_5m_src = "ring"
    /\ nq.rets.r_5m # Zero
    /\ LET r == ring[nq.rticker]
       IN  /\ Len(r) >= 3
           /\ r[2].ts = clock - 5 * TicksPerMin /\ r[2].px # r[1].px /\ r[2].px # r[3].px

\* C19: with 2 to 20 candles the close series handed to the volatility
\* computation is the closes right-padded with the final close to length 21,
\* and the high and low series handed with it have length 21 as well; with 21
\* or more candles the three series are the same trailing window, at most 120 long.
C19_SeriesAligned ==
    (fq.r_1m_src # "none" /\ Len(fq.candles) >= 2) =>
        LET n == Len(fq.candles)
            v == fq.vol
        IN  /\ n <= 20 =>
                  /\ Len(v.c) = 21
                  /\ \A i \in 1..21 : v.c[i] = fq.candles[Min(i, n)].close
                  /\ Len(v.h) = 21 /\ Len(v.l) = 21
            /\ n >= 21 =>
                  /\ Len(v.c) = Min(n, 120) /\ Len(v.h) = Len(v.c) /\ Len(v.l) = Len(v.c)
                  /\ \A i \in 1..Len(v.c) :
                        LET k == n - Len(v.c) + i
                        IN  /\ v.c[i] = fq.candles[k].close
                            /\ v.h[i] = fq.candles[k].high
                            /\ v.l[i] = fq.candles[k].low

\* C20: with requests handled one at a time, at most one aggregation per ticker
\* reaches the providers, so no ring ever holds more than one sample and every
\* return taken from the ring during an aggregation is 0.0.
C20_Sequential ==
    /\ \A t \in Tickers : fq.aggs[t] <= 1 /\ Len(ring[t]) <= 1
    /\ fq.r_1m_src = "ring" => fq.r_1m = Zero
    /\ fq.r_5m_src = "ring" => fq.r_5m = Zero

\* a later live request was served from the cache after the one aggregation,
\* whose returns came from the ring, had left one sample behind
C20_Witness ==
    /\ nreq >= 2 /\ live /\ fq.pc = "done" /\ fq.path = "hit"
    /\ fq.aggs[fq.ticker] = 1 /\ Len(ring[fq.ticker]) = 1
    /\ Val(fq.ret).error = <<>> /\ Val(fq.ret).features.r_5m = Zero
    /\ Val(fq.ret).quote.last = ring[fq.ticker][1].px

\* a payload without the two keys features_v2 writes
C16_Core(p) == [k \in PayloadKeys \ {"ts"} |-> p[k]]

\* what the claim says of every state: each call in progress can take its next
\* step; each finished call returned a complete payload derived from its own
\* fetch, that of a successful aggregation when all its provider calls answered
\* and the synthetic one with its own diagnostic when one of them failed; each
\* ticker's cache entry is the payload of its last writer
C16_State ==
    /\ \A w \in Workers :
          /\ cq[w].pc \notin {"idle", "answered"} => ENABLED ConcStep(w)
          /\ IsSome(cq[w].ret) =>
                LET q == cq[w]
                    p == Val(q.ret)
                IN  /\ PayloadKeys \subseteq DOMAIN p
                    /\ q.path \in {"hit", "ok", "degraded"}
                    /\ q.path = "ok" =>
                          /\ p.quote.last = Val(q.quote_ti.last)
                          /\ p.top_headline = q.top_headline /\ p.refs = q.refs
                          /\ p.error = <<>>
                    /\ q.path = "degraded" =>
                          /\ C16_Core(p) = C16_Core(SyntheticPayload(q.top_headline, q.error, 0))
                          /\ q.error # <<>>
                    /\ (q.path # "hit" /\ q.failed = <<>>) => q.path = "ok"
                    /\ q.path = "hit" => q.calls = <<>>
    /\ \A t \in Tickers :
          IF cw[t] = 0 THEN cache[t] = None
          ELSE /\ IsSome(cq[cw[t]].ret) /\ cq[cw[t]].ticker = t
               /\ cq[cw[t]].pc = "done" => cache[t] = cq[cw[t]].ret
               /\ C16_Core(Val(cache[t])) = C16_Core(Val(cq[cw[t]].ret))

\* a step that changes a ticker's cache entry or ring is a step of a call for that ticker
C16_Isolated ==
    \A t \in Tickers :
        (ring'[t] # ring[t] \/ cache'[t] # cache[t]) =>
            \E w \in Workers : cq'[w] # cq[w] /\ cq[w].pc # "idle" /\ cq[w].ticker = t

\* C16: under every interleaving of concurrent live requests, each request runs
\* to completion and returns a well-formed payload built from its own fetch; the
\* cache entry of a ticker is the payload of the last request to write it; a
\* request never alters the cache entry or the ring of another ticker.
C16_Concurrent == [](C16_State) /\ [][C16_Isolated]_vars

\* C18: in every reachable state, under every interleaving of concurrent
\* _note_quote calls, each ticker's ring is ordered by non-decreasing timestamp,
\* so that the prefix trim leaves no stale sample behind a fresher one.
C18_RingOrdered == \A t \in Tickers : TimeOrdered(ring[t])

====
